---------------------------- MODULE Spec2Model ----------------------------
(***************************************************************************)
(* A model of src/src/client.py (BaseClient: the retry wrapper around a    *)
(* provider call, with the OpenAI variant's retry classification) and of   *)
(* src/src/agent.py (ConversationAgent: the message history and its        *)
(* rollback operations; BatchAgent: the semaphore-bounded fan-out), of     *)
(* src/q/generators/text.py (TextGenerator: the conversation history) and  *)
(* of src/q/providers/openai.py (OpenAIProvider._get_client).              *)
(*                                                                         *)
(* The specifications share the variables:                                 *)
(*   SpecRetry  sequential prompt / prompt_async calls on one client       *)
(*   SpecAgent  one ConversationAgent driven through all its operations    *)
(*   SpecBatch  one BatchAgent.batch_prompt call and its tasks             *)
(*   SpecPair   one prompt call and one prompt_async call given the same   *)
(*              outcomes                                                   *)
(*   SpecHooks  the hooks of a client (_calc_backoff, _should_retry,       *)
(*              _convert_messages) applied to inputs from bounded sets     *)
(*   SpecConstruct  the constructors of the provider variants              *)
(*   SpecCopy   the list get_messages returns, in the hands of its caller  *)
(*   SpecGenerator  one TextGenerator: generate, generate_with_history,    *)
(*              clear, export and import of the history                    *)
(*   SpecProvider   the _get_client calls of one OpenAIProvider            *)
(*   SpecBatchLive  SpecBatch with the fairness of the event loop, for     *)
(*              termination                                                *)
(*   SpecDrop   drop_exchanges on histories of every shape                 *)
(*   SpecOverlap    overlapping prompt_async calls on one agent, counted   *)
(***************************************************************************)
EXTENDS Integers, Sequences, FiniteSets, TLC

VARIABLES
    max_retries,      \* BaseClient.max_retries
    backoff_factor,   \* BaseClient.backoff_factor
    sync_client,      \* BaseClient._sync_client: 0 is None, else the handle's id
    async_client,     \* BaseClient._async_client: 0 is None, else the handle's id
    n_created,        \* how many times each handle factory returned a handle
    req,              \* the prompt / prompt_async calls: one record per call slot
    sends,            \* SpecRetry: the calls started so far
    messages,         \* ConversationAgent.messages
    turn,             \* ConversationAgent: the prompt / prompt_async calls
    last,             \* ConversationAgent: what the last operation was and gave
    batch,            \* BatchAgent.batch_prompt: its arguments, position, outcome
    task,             \* batch_prompt: the position of each process_message task
    semaphore,        \* batch_prompt: the asyncio.Semaphore (value, FIFO waiters)
    hook,             \* SpecHooks: the hook applied last, its input and its outcome
    heap,             \* SpecCopy: the message dicts by identity, and the lists of them
    gen,              \* TextGenerator: conversation_history and its last operation
    prov,             \* OpenAIProvider: _api_key, _client and the _get_client calls
    overlap           \* SpecOverlap: the prompt_async calls begun since the agent was quiet

clientVars == <<max_retries, backoff_factor, sync_client, async_client, n_created>>
agentVars == <<messages, turn, last>>
batchVars == <<batch, task, semaphore>>
extraVars == <<hook, heap, gen, prov, overlap>>
vars == <<max_retries, backoff_factor, sync_client, async_client, n_created,
          req, sends, messages, turn, last, batch, task, semaphore, hook, heap,
          gen, prov, overlap>>

----------------------------------------------------------------------------
(* Bounds of the model *)

\* the largest max_retries a client is constructed with
MaxRetriesBound == 3
\* the number of sequential calls SpecRetry makes on one client
MaxSends == 2
\* the longest history SpecAgent grows
MaxHist == 4
\* the number of prompt_async calls on one agent that may overlap
MaxTurns == 2
\* the longest prompt list handed to batch_prompt
MaxPrompts == 3
\* the largest n_threads handed to batch_prompt
MaxThreads == 3
\* the number of message dicts SpecCopy allocates
MaxObjs == 2
\* the largest backoff factor and the largest attempt index SpecHooks hands
\* to _calc_backoff
MaxFactor == 3
MaxAttempt == 4
\* the longest message list SpecHooks hands to _convert_messages
MaxConv == 3

(* Program constants *)
DEFAULT_MAX_RETRIES == 3
DEFAULT_BACKOFF_FACTOR == 2

----------------------------------------------------------------------------
(* Values *)

Roles == {"system", "user", "assistant"}
Contents == {"a", "b"}
Msg(role, content) == [role |-> role, content |-> content]
Message == [role : Roles, content : Contents]

\* Python's None as a reply / result
NoneVal == "None"
\* no exception
NoErr == [cls |-> "none", code |-> 0, at |-> -1, src |-> "none"]

\* The exceptions a provider call (or a handle factory) raises: the class, the
\* HTTP status it carries (0: none), and, once raised, the attempt that raised
\* it and where ("at", "src": the identity of the exception object).
ErrorKinds ==
    { [cls |-> "RateLimitError", code |-> 429],
      [cls |-> "APITimeoutError", code |-> 0],
      [cls |-> "APIStatusError", code |-> 503],
      [cls |-> "APIStatusError", code |-> 400],
      [cls |-> "AuthenticationError", code |-> 401],
      [cls |-> "Exception", code |-> 0] }

Raised(k, attempt, src) ==
    [cls |-> k.cls, code |-> k.code, at |-> attempt, src |-> src]

\* The subclasses of APIStatusError in the openai and anthropic packages
StatusErrors ==
    {"BadRequestError", "AuthenticationError", "PermissionDeniedError",
     "NotFoundError", "RateLimitError", "InternalServerError"}

\* isinstance(error, cls) over the exception classes of the openai and
\* anthropic packages
IsInstance(e, cls) ==
    \/ e.cls = cls
    \/ cls = "APIStatusError" /\ e.cls \in StatusErrors
    \/ cls = "APIConnectionError" /\ e.cls = "APITimeoutError"
    \/ cls = "APIError" /\ e.cls \in StatusErrors \cup {"APIStatusError",
                                     "APIConnectionError", "APITimeoutError"}

\* _should_retry without the status-code test
ShouldRetryNoStatus(e) ==
    IF IsInstance(e, "RateLimitError") THEN TRUE
    ELSE IF IsInstance(e, "APIConnectionError") \/ IsInstance(e, "APITimeoutError") THEN TRUE
    ELSE IF IsInstance(e, "InternalServerError") THEN TRUE
    ELSE FALSE

\* AnthropicClient._should_retry
AnthropicShouldRetry(e) ==
    IF IsInstance(e, "RateLimitError") THEN TRUE
    ELSE IF IsInstance(e, "APIConnectionError") \/ IsInstance(e, "APITimeoutError") THEN TRUE
    ELSE IF IsInstance(e, "InternalServerError") THEN TRUE
    ELSE IF IsInstance(e, "APIStatusError")
              /\ (e.code = 429 \/ (500 =< e.code /\ e.code < 600)) THEN TRUE
    ELSE FALSE

\* OpenAIClient._should_retry
ShouldRetry(e) ==
    IF IsInstance(e, "RateLimitError") THEN TRUE
    ELSE IF IsInstance(e, "APIConnectionError") \/ IsInstance(e, "APITimeoutError") THEN TRUE
    ELSE IF IsInstance(e, "InternalServerError") THEN TRUE
    ELSE IF IsInstance(e, "APIStatusError")
              /\ (e.code = 429 \/ (500 =< e.code /\ e.code < 600)) THEN TRUE
    ELSE FALSE

RECURSIVE Pow(_, _)
Pow(f, i) == IF i <= 0 THEN 1 ELSE f * Pow(f, i - 1)

\* _calc_backoff with the jitter drawn from [-0.1 * base, 0.1 * base]
CalcBackoffSymmetric(attempt) ==
    LET base_delay == 10 * Pow(backoff_factor, attempt)
        jitter == {0 - (base_delay \div 10), 0, base_delay \div 10}
    IN  {base_delay + j : j \in jitter}

\* BaseClient._calc_backoff, in tenths of a second: the delays it can return
\* for an attempt (the jitter is uniform over [0, 0.1 * base]; its least, middle
\* and greatest values stand for the interval).
CalcBackoff(attempt) ==
    LET base_delay == 10 * Pow(backoff_factor, attempt)
        jitter == {0, base_delay \div 20, base_delay \div 10}
    IN  {base_delay + j : j \in jitter}

----------------------------------------------------------------------------
(* BaseClient: one prompt / prompt_async call *)

Reqs == 1..MaxPrompts

\* A call slot: its position, the arguments, the loop variable of the retry
\* wrapper, and a log of what happened (calls: invocations of func by the
\* wrapper; net: invocations of _prompt_sync / _prompt_async; trace: the
\* outcome of each attempt; sleeps: the attempt index of each backoff sleep;
\* handle, wire: the handle the latest provider call went through and the
\* messages it was given).
Req0 ==
    [pc |-> "idle", mode |-> "sync", msgs |-> <<>>, attempt |-> 0,
     calls |-> 0, net |-> 0, trace |-> <<>>, sleeps |-> <<>>, delay |-> 0,
     err |-> NoErr, result |-> NoneVal, handle |-> 0, wire |-> <<>>]

\* A wrapper whose loop variable is an attribute of the client: a call goes
\* on from the highest attempt index any call has reached
NewCallCarried(mode, msgs) ==
    LET top == CHOOSE a \in {req[r].attempt : r \in Reqs} :
                  \A r \in Reqs : req[r].attempt =< a
    IN  [Req0 EXCEPT !.mode = mode, !.msgs = msgs, !.attempt = top]

\* prompt / prompt_async is called: the frame of the wrapper, whose loop
\* `for attempt in range(self.max_retries + 1)` starts at 0
NewCall(mode, msgs) == [Req0 EXCEPT !.mode = mode, !.msgs = msgs]

\* The trace entry of an attempt that returned text t
OkEntry(attempt, t) ==
    [cls |-> "ok", code |-> 0, at |-> attempt, src |-> "call", text |-> t]

\* The except block with the exception wrapped in a GenerationError
OnErrorWrapped(rq, e, d) ==
    IF rq.attempt = max_retries \/ ~ShouldRetry(e)
    THEN [rq EXCEPT !.pc = "raised",
                    !.err = [cls |-> "GenerationError", code |-> 0,
                             at |-> e.at, src |-> "wrapper"],
                    !.trace = Append(@, e)]
    ELSE [rq EXCEPT !.pc = "sleeping", !.sleeps = Append(@, rq.attempt),
                    !.delay = d, !.trace = Append(@, e)]

\* The except block with the test for the last attempt off by one
OnErrorOffByOne(rq, e, d) ==
    IF rq.attempt + 1 = max_retries \/ ~ShouldRetry(e)
    THEN [rq EXCEPT !.pc = "raised", !.err = e, !.trace = Append(@, e)]
    ELSE [rq EXCEPT !.pc = "sleeping", !.sleeps = Append(@, rq.attempt),
                    !.delay = d, !.trace = Append(@, e)]

\* The except block without the retryability test
OnErrorRetryAll(rq, e, d) ==
    IF rq.attempt = max_retries
    THEN [rq EXCEPT !.pc = "raised", !.err = e, !.trace = Append(@, e)]
    ELSE [rq EXCEPT !.pc = "sleeping", !.sleeps = Append(@, rq.attempt),
                    !.delay = d, !.trace = Append(@, e)]

\* The except block sleeping before it gives up on the last attempt
OnErrorSleepLast(rq, e, d) ==
    IF ~ShouldRetry(e)
    THEN [rq EXCEPT !.pc = "raised", !.err = e, !.trace = Append(@, e)]
    ELSE IF rq.attempt = max_retries
    THEN [rq EXCEPT !.pc = "raised", !.err = e, !.trace = Append(@, e),
                    !.sleeps = Append(@, rq.attempt)]
    ELSE [rq EXCEPT !.pc = "sleeping", !.sleeps = Append(@, rq.attempt),
                    !.delay = d, !.trace = Append(@, e)]

\* _retry_wrapper: the except block. rq is the call whose attempt raised e; d
\* is the delay _calc_backoff returned.
OnError(rq, e, d) ==
    IF rq.attempt = max_retries \/ ~ShouldRetry(e)
    THEN [rq EXCEPT !.pc = "raised", !.err = e, !.trace = Append(@, e)]
    ELSE [rq EXCEPT !.pc = "sleeping", !.sleeps = Append(@, rq.attempt),
                    !.delay = d, !.trace = Append(@, e)]

\* The except block of the async wrapper without the test for the last attempt
OnErrorAsyncNoLast(rq, e, d) ==
    IF ~ShouldRetry(e)
    THEN [rq EXCEPT !.pc = "raised", !.err = e, !.trace = Append(@, e)]
    ELSE [rq EXCEPT !.pc = "sleeping", !.sleeps = Append(@, rq.attempt),
                    !.delay = d, !.trace = Append(@, e)]

\* _async_retry_wrapper: the except block
OnErrorAsync(rq, e, d) ==
    IF rq.attempt = max_retries \/ ~ShouldRetry(e)
    THEN [rq EXCEPT !.pc = "raised", !.err = e, !.trace = Append(@, e)]
    ELSE [rq EXCEPT !.pc = "sleeping", !.sleeps = Append(@, rq.attempt),
                    !.delay = d, !.trace = Append(@, e)]

\* The except block of the wrapper the call runs under: prompt goes through
\* _retry_wrapper, prompt_async through _async_retry_wrapper
Except(rq, e, d) ==
    IF rq.mode = "sync" THEN OnError(rq, e, d) ELSE OnErrorAsync(rq, e, d)

\* The handle test that holds on every call
AbsentAlways(handle) == TRUE

\* The handle test reading a value that is one assignment old
AbsentStale(handle) == handle =< 1

\* `if self._sync_client is None` / `if self._async_client is None`
Absent(handle) == handle = 0

\* _make_request up to its provider call, for the call in slot r at the top of
\* a loop iteration (rq.attempt is the loop variable). errs: the exceptions the
\* handle factory can raise.
BeginAttempt(r, rq, errs) ==
    IF rq.attempt > max_retries
    THEN \* range(max_retries + 1) is exhausted: the wrapper falls off its end
         /\ req' = [req EXCEPT ![r] = [rq EXCEPT !.pc = "returned", !.result = NoneVal]]
         /\ UNCHANGED <<sync_client, async_client, n_created>>
    ELSE LET handle == IF rq.mode = "sync" THEN sync_client ELSE async_client
             fresh == n_created[rq.mode] + 1
             called == [rq EXCEPT !.pc = "calling", !.calls = @ + 1, !.net = @ + 1,
                                  !.handle = IF Absent(handle) THEN fresh ELSE handle,
                                  !.wire = rq.msgs]
         IN  IF ~Absent(handle)
             THEN /\ req' = [req EXCEPT ![r] = called]
                  /\ UNCHANGED <<sync_client, async_client, n_created>>
             ELSE \/ \* the factory returns a handle, which is cached
                     /\ n_created' = [n_created EXCEPT ![rq.mode] = @ + 1]
                     /\ IF rq.mode = "sync"
                        THEN /\ sync_client' = fresh
                             /\ UNCHANGED async_client
                        ELSE /\ async_client' = fresh
                             /\ UNCHANGED sync_client
                     /\ req' = [req EXCEPT ![r] = called]
                  \/ \* the factory raises: func raises before any provider call
                     /\ \E k \in errs : \E d \in CalcBackoff(rq.attempt) :
                           req' = [req EXCEPT ![r] =
                                     Except([rq EXCEPT !.calls = @ + 1],
                                            Raised(k, rq.attempt, "create"), d)]
                     /\ UNCHANGED <<sync_client, async_client, n_created>>

\* The wrapper calls func and drops what it returns
NetReturnDropped(r, t) ==
    /\ req[r].pc = "calling"
    /\ req' = [req EXCEPT ![r] = [@ EXCEPT !.pc = "returned", !.result = NoneVal,
                                           !.trace = Append(@, OkEntry(req[r].attempt, t))]]

\* The provider call of slot r returns and _extract_text gives text t: the
\* wrapper returns it
NetReturn(r, t) ==
    /\ req[r].pc = "calling"
    /\ req' = [req EXCEPT ![r] = [@ EXCEPT !.pc = "returned", !.result = t,
                                           !.trace = Append(@, OkEntry(req[r].attempt, t))]]

\* The provider call of slot r raises an exception of kind k
NetRaise(r, k) ==
    /\ req[r].pc = "calling"
    /\ \E d \in CalcBackoff(req[r].attempt) :
         req' = [req EXCEPT ![r] = Except(@, Raised(k, req[r].attempt, "call"), d)]

\* The backoff sleep of slot r ends: the next loop iteration begins
WakeUp(r, errs) ==
    /\ req[r].pc = "sleeping"
    /\ BeginAttempt(r, [req[r] EXCEPT !.attempt = @ + 1, !.delay = 0], errs)

Finished(rq) == rq.pc \in {"returned", "raised"}

----------------------------------------------------------------------------
(* SpecRetry: sequential calls on one client *)

U(c) == Msg("user", c)
SendMsgs == { <<>>, <<U("a")>>, <<Msg("system", "b"), U("a")>> }
Texts == Contents

IdleAgent == /\ messages = <<>>
             /\ turn = <<>>
             /\ last = [op |-> "none"]
IdleBatch == /\ batch = [pc |-> "idle"]
             /\ task = <<>>
             /\ semaphore = [value |-> 0, waiters |-> <<>>]
\* No hook applied yet
Hook0 == [op |-> "none"]
\* No message dict allocated yet. store: the dicts, a dict's identity being its
\* index; agent: ConversationAgent.messages as a list of dicts; got: the list
\* the caller of get_messages holds (held: it was handed one); expect: the
\* history as the agent's own operations made it.
Heap0 == [store |-> <<>>, agent |-> <<>>, got |-> <<>>, held |-> FALSE,
          expect |-> <<>>]
\* A TextGenerator just constructed (generators/text.py __init__), no call made
\* yet. history: conversation_history; n: the generate / generate_with_history
\* calls made; calls: the provider.generate_text calls made; request: the
\* messages of the request the last operation sent; op, text, cmd, arg: the last
\* operation and its arguments; before, called: history and calls as that
\* operation found them; ret, err: what it returned or raised; reply: what the
\* provider answered; ok: the generate_with_history calls that returned; fresh:
\* nothing but generate_with_history calls that returned has touched the
\* history; exported, snap: what export_conversation returned and the history
\* it was taken from, while the caller holds it (until the next generate or
\* generate_with_history call).
NoData == [none |-> TRUE]
Gen0 == [history |-> <<>>, n |-> 0, calls |-> 0, request |-> <<>>,
         op |-> "none", text |-> <<>>, cmd |-> "default", arg |-> NoData,
         before |-> <<>>, called |-> 0, ret |-> <<>>, err |-> "none",
         reply |-> <<>>, ok |-> 0, fresh |-> TRUE,
         exported |-> NoData, snap |-> <<>>]
\* An OpenAIProvider just constructed without a key (providers/openai.py
\* __init__), no key in the configuration. api_key, client: _api_key, _client;
\* stored: the configuration's 'openai_key'; pc, key: the position of the
\* _get_client call under way and its local api_key; gets, hits: the
\* _get_client calls made, and those that returned at once; prompts, saves:
\* the getpass and _save_resource calls; constructed, validated: the
\* openai.OpenAI(...) and models.list() calls; since: these two counts when
\* _client was set; log: each validation with its key, its outcome and the
\* counts it found; ret, err: what the last call returned or raised.
NoClient == [key |-> "None", id |-> 0]
Prov0 == [api_key |-> "None", client |-> NoClient, stored |-> "None",
          pc |-> "idle", key |-> "None", gets |-> 0, hits |-> 0,
          prompts |-> 0, saves |-> 0, constructed |-> 0, validated |-> 0,
          since |-> <<0, 0>>, log |-> <<>>, ret |-> NoClient, err |-> "none"]
\* No prompt_async call begun. initial: the history when the first of the calls
\* now running or just ended began; users: the texts of these calls, in the
\* order they began; replies: the replies of those that returned, in the order
\* they returned; failed: how many raised.
Overlap0 == [initial |-> <<>>, users |-> <<>>, replies |-> <<>>, failed |-> 0]
IdleExtra == /\ hook = Hook0
             /\ heap = Heap0
             /\ gen = Gen0
             /\ prov = Prov0
             /\ overlap = Overlap0

InitClient(retries, factors) ==
    /\ max_retries \in retries
    /\ backoff_factor \in factors
    /\ sync_client = 0
    /\ async_client = 0
    /\ n_created = [sync |-> 0, async |-> 0]

InitRetry ==
    /\ InitClient(-1..MaxRetriesBound, {1, DEFAULT_BACKOFF_FACTOR})
    /\ req = [r \in Reqs |-> Req0]
    /\ sends = 0
    /\ IdleAgent
    /\ IdleBatch
    /\ IdleExtra

\* BaseClient.prompt / prompt_async is called
Send ==
    /\ req[1].pc = "idle" \/ Finished(req[1])
    /\ sends < MaxSends
    /\ sends' = sends + 1
    /\ \E mode \in {"sync", "async"} : \E m \in SendMsgs :
         BeginAttempt(1, NewCall(mode, m), ErrorKinds)
    /\ UNCHANGED <<max_retries, backoff_factor, agentVars, batchVars, extraVars>>

\* the provider call returns
SendReturn ==
    /\ \E t \in Texts : NetReturn(1, t)
    /\ UNCHANGED <<clientVars, sends, agentVars, batchVars, extraVars>>

\* the provider call raises
SendRaise ==
    /\ \E k \in ErrorKinds : NetRaise(1, k)
    /\ UNCHANGED <<clientVars, sends, agentVars, batchVars, extraVars>>

\* time.sleep / asyncio.sleep returns
SendWakeUp ==
    /\ WakeUp(1, ErrorKinds)
    /\ UNCHANGED <<max_retries, backoff_factor, sends, agentVars, batchVars, extraVars>>

NextRetry == Send \/ SendReturn \/ SendRaise \/ SendWakeUp

SpecRetry == InitRetry /\ [][NextRetry]_vars

----------------------------------------------------------------------------
(* Claims about the retry wrapper, checked under SpecRetry *)

\* the call SpecRetry is making or has just made
R == req[1]

IsFailure(entry) == entry.cls # "ok"
RetryableFailure(entry) == IsFailure(entry) /\ ShouldRetry(entry)
FatalFailure(entry) == IsFailure(entry) /\ ~ShouldRetry(entry)
AllRetryable(trace, n) == \A j \in 1..n : RetryableFailure(trace[j])

\* C1: for every k in 0..max_retries, when func (the underlying call) fails k
\* times in a row with retryable errors and then succeeds, the call returns the
\* text of the successful attempt after exactly k+1 invocations of func; and
\* after k <= max_retries retryable failures in a row the wrapper has not given
\* up, so that the (k+1)-th attempt is made.
C1_RetryThenSuccess ==
    \A k \in 0..max_retries :
        /\ (Len(R.trace) = k + 1 /\ AllRetryable(R.trace, k)
                /\ R.trace[k + 1].cls = "ok")
             => /\ R.pc = "returned"
                /\ R.result = R.trace[k + 1].text
                /\ R.calls = k + 1
        /\ (R.pc # "idle" /\ Len(R.trace) = k /\ AllRetryable(R.trace, k))
             => R.pc \in {"calling", "sleeping"}

\* C1 witness: two retryable failures, then a success at the third attempt
C1_Witness ==
    /\ R.pc = "returned" /\ Len(R.trace) = 3 /\ AllRetryable(R.trace, 2)
    /\ R.calls = 3 /\ R.result \in Texts

\* C2: when every attempt fails with a retryable error (and at least one
\* attempt is made), the call ends after exactly max_retries+1 invocations of
\* func by raising the very exception the last attempt raised.
C2_ExhaustedPropagatesLast ==
    LET n == Len(R.trace) IN
    (n >= 1 /\ AllRetryable(R.trace, n)) =>
        /\ n = max_retries + 1 <=> R.pc = "raised"
        /\ R.pc = "raised" => /\ R.calls = max_retries + 1
                              /\ R.err = R.trace[n]
                              /\ R.err.at = max_retries

\* C2 witness: the default max_retries = 3, four retryable failures
C2_Witness ==
    /\ max_retries = DEFAULT_MAX_RETRIES /\ R.pc = "raised" /\ R.calls = 4
    /\ AllRetryable(R.trace, 4) /\ R.err = R.trace[4]

\* C3: once an attempt fails with an error _should_retry rejects, no further
\* invocation of func and no backoff sleep follows: the call has raised that
\* exception, whatever the attempt index and max_retries (one invocation and
\* no sleep at all when it is the first attempt).
C3_NonRetryableStops ==
    \A j \in 1..Len(R.trace) :
        FatalFailure(R.trace[j]) =>
            /\ j = Len(R.trace)
            /\ R.pc = "raised"
            /\ R.err = R.trace[j]
            /\ R.calls = j
            /\ R.sleeps = [i \in 1..(j - 1) |-> i - 1]
            /\ R.delay = 0

\* C3 witness: a non-retryable error at the second attempt, retries left
C3_Witness ==
    /\ Len(R.trace) = 2 /\ FatalFailure(R.trace[2]) /\ R.pc = "raised"
    /\ R.attempt = 1 /\ max_retries = 3

C14_LazyCachedHandle ==
    /\ sends = 0 => (sync_client = 0 /\ async_client = 0)
    /\ (sends =< 1 /\ R.mode = "sync") => async_client = 0
    /\ (sends =< 1 /\ R.mode = "async") => sync_client = 0
    /\ \A mode \in {"sync", "async"} : n_created[mode] =< 1
    /\ sync_client = n_created["sync"]
    /\ async_client = n_created["async"]
    /\ R.pc = "calling" =>
          /\ R.handle = 1
          /\ R.handle = IF R.mode = "sync" THEN sync_client ELSE async_client

\* the retry of a second call goes through the handle made once
C14_Witness ==
    /\ sends = 2
    /\ R.mode = "sync"
    /\ R.pc = "calling"
    /\ R.attempt = 1
    /\ R.trace[1].src = "call"
    /\ R.handle = 1
    /\ n_created["sync"] = 1


\* C19: a call with an empty message list fails with ValidationError before
\* any provider call and without a retry.
C19_EmptyFailsFast ==
    (R.pc # "idle" /\ R.msgs = <<>>) =>
        /\ R.pc = "raised"
        /\ R.err.cls = "ValidationError"
        /\ R.net = 0
        /\ R.sleeps = <<>>

----------------------------------------------------------------------------
(* ConversationAgent *)

Max(a, b) == IF a >= b THEN a ELSE b
Min(a, b) == IF a <= b THEN a ELSE b

\* Python's h[:stop] on a list
SliceTo(h, stop) ==
    LET s == IF stop < 0 THEN Max(stop + Len(h), 0) ELSE Min(stop, Len(h))
    IN  SubSeq(h, 1, s)

\* add_message putting the message in front of the history
AddMessageFront(h, role, content) == <<Msg(role, content)>> \o h

\* ConversationAgent.add_message
AddMessage(h, role, content) == Append(h, Msg(role, content))

\* add_user_message that appends nothing
AddUserMessageLost(h, content) == h

\* ConversationAgent.add_system_message / add_user_message /
\* add_assistant_message
AddSystemMessage(h, content) == AddMessage(h, "system", content)
AddUserMessage(h, content) == AddMessage(h, "user", content)
AddAssistantMessage(h, content) == AddMessage(h, "assistant", content)

\* The three appenders by name
Appenders == {"add_system_message", "add_user_message", "add_assistant_message"}
Appender(op, h, content) ==
    CASE op = "add_system_message" -> AddSystemMessage(h, content)
      [] op = "add_user_message" -> AddUserMessage(h, content)
      [] op = "add_assistant_message" -> AddAssistantMessage(h, content)

\* get_messages leaving out the last message
GetMessagesButLast(h) == SubSeq(h, 1, Len(h) - 1)

\* ConversationAgent.get_messages
GetMessages(h) == h

\* drop_messages dropping the first n messages
DropMessagesFront(h, n) ==
    IF n > 0 /\ h # <<>> THEN SubSeq(h, Min(n, Len(h)) + 1, Len(h)) ELSE h

\* drop_messages cutting at len - n
DropMessagesNoClamp(h, n) ==
    IF n > 0 /\ h # <<>> THEN SliceTo(h, Len(h) - n) ELSE h

\* ConversationAgent.drop_messages
DropMessages(h, n) ==
    IF n > 0 /\ h # <<>> THEN SliceTo(h, -n) ELSE h

\* drop_exchanges' loop at (1-based) position i, with `found` user messages
\* seen so far; falling off the loop leaves the history as it is
RECURSIVE ScanExchanges(_, _, _, _)
ScanExchanges(h, i, found, n) ==
    IF i < 1 THEN h
    ELSE IF h[i].role = "user"
         THEN IF found + 1 = n
              THEN SliceTo(h, i - 1)
              ELSE ScanExchanges(h, i - 1, found + 1, n)
         ELSE ScanExchanges(h, i - 1, found, n)

\* drop_exchanges cutting at the earliest user message when there are too few
RECURSIVE ScanPartial(_, _, _, _, _)
ScanPartial(h, i, found, n, cut) ==
    IF i < 1 THEN SliceTo(h, cut)
    ELSE IF h[i].role = "user"
         THEN IF found + 1 = n
              THEN SliceTo(h, i - 1)
              ELSE ScanPartial(h, i - 1, found + 1, n, i - 1)
         ELSE ScanPartial(h, i - 1, found, n, cut)
DropExchangesPartial(h, n) ==
    IF n <= 0 THEN h ELSE ScanPartial(h, Len(h), 0, n, Len(h))

\* drop_exchanges cutting after the n-th user message from the end
RECURSIVE ScanKeepUser(_, _, _, _)
ScanKeepUser(h, i, found, n) ==
    IF i < 1 THEN h
    ELSE IF h[i].role = "user"
         THEN IF found + 1 = n
              THEN SliceTo(h, i)
              ELSE ScanKeepUser(h, i - 1, found + 1, n)
         ELSE ScanKeepUser(h, i - 1, found, n)
DropExchangesKeepUser(h, n) ==
    IF n <= 0 THEN h ELSE ScanKeepUser(h, Len(h), 0, n)

\* drop_exchanges taking the first message of what it keeps away as well
DropExchangesAndHead(h, n) ==
    IF n <= 0 THEN h
    ELSE LET r == ScanExchanges(h, Len(h), 0, n)
         IN  IF r # h /\ r # <<>> THEN Tail(r) ELSE r

\* ConversationAgent.drop_exchanges
DropExchanges(h, n) ==
    IF n <= 0 THEN h ELSE ScanExchanges(h, Len(h), 0, n)

\* A prompt that takes its user message back when the client raises
ClientRaisedRollback(h) == SliceTo(h, -1)

\* prompt / prompt_async when the client call raises: nothing catches the
\* exception, the history stays as it is
ClientRaised(h) == h

\* A reply that takes the place of the last message of the history
ClientReturnedOver(h, response) ==
    Append(SliceTo(h, -1), Msg("assistant", response))

\* prompt / prompt_async when the client call returns
ClientReturned(h, response) == AddAssistantMessage(h, response)

\* What the client call of a prompt gives: a reply or an exception
ClientOutcomes ==
    {[ok |-> TRUE, text |-> t, err |-> NoErr] : t \in Texts}
    \cup {[ok |-> FALSE, text |-> NoneVal, err |-> Raised(k, 0, "client")] :
              k \in {e \in ErrorKinds : e.cls \in {"RateLimitError", "AuthenticationError"}}}

Turns == 1..MaxTurns
Turn0 == [pc |-> "idle", text |-> "", sent |-> <<>>, clean |-> TRUE]
Awaiting == {c \in Turns : turn[c].pc = "awaiting"}
\* room for one more message, counting the reply each outstanding call appends
Room(k) == Len(messages) + Cardinality(Awaiting) + k <= MaxHist
\* The caller runs the blocking operations (prompt, the appenders, clear, the
\* drops) only while no prompt_async call is outstanding; prompt_async calls
\* may overlap each other.
Quiet == Awaiting = {}
\* another call has touched the agent during the outstanding calls
Touched(t) == [c \in Turns |-> [t[c] EXCEPT !.clean = FALSE]]

SystemPrompts == {NoneVal, "", "a"}
DropArgs == -1..(MaxHist + 1)

\* ConversationAgent.__init__
Construct(system_prompt) ==
    IF system_prompt # NoneVal /\ system_prompt # ""
    THEN AddMessage(<<>>, "system", system_prompt)
    ELSE <<>>

Done(op, arg, before, clean, out, ret, err) ==
    [op |-> op, arg |-> arg, before |-> before, clean |-> clean,
     client |-> out, ret |-> ret, err |-> err, sent |-> <<>>]
NoOutcome == [ok |-> TRUE, text |-> NoneVal, err |-> NoErr]

InitAgent ==
    /\ InitClient({DEFAULT_MAX_RETRIES}, {DEFAULT_BACKOFF_FACTOR})
    /\ req = [r \in Reqs |-> Req0]
    /\ sends = 0
    /\ \E sp \in SystemPrompts :
         /\ messages = Construct(sp)
         /\ last = Done("init", sp, <<>>, TRUE, NoOutcome, NoneVal, NoErr)
    /\ turn = [c \in Turns |-> Turn0]
    /\ IdleBatch
    /\ IdleExtra

otherVars == <<clientVars, req, sends, batchVars, extraVars>>

\* ConversationAgent.prompt: a blocking call, the client's outcome included
Prompt ==
    /\ Quiet
    /\ Room(2)
    /\ \E text \in Contents : \E out \in ClientOutcomes :
         LET sent == GetMessages(AddUserMessage(messages, text)) IN
         /\ messages' = IF out.ok THEN ClientReturned(sent, out.text)
                                  ELSE ClientRaised(sent)
         /\ last' = [Done("prompt", text, messages, TRUE, out, out.text, out.err)
                       EXCEPT !.sent = sent]
    /\ UNCHANGED <<turn, otherVars>>

\* ConversationAgent.prompt_async up to its await
PromptAsyncBegin(c) ==
    /\ turn[c].pc = "idle"
    /\ Room(2)
    /\ \E text \in Contents :
         /\ messages' = AddUserMessage(messages, text)
         /\ turn' = [Touched(turn) EXCEPT ![c] =
                       [pc |-> "awaiting", text |-> text,
                        sent |-> GetMessages(messages'), clean |-> TRUE]]
         /\ last' = Done("prompt_async_begin", text, messages, TRUE, NoOutcome,
                         NoneVal, NoErr)

PromptAsync(c) == PromptAsyncBegin(c) /\ UNCHANGED otherVars

\* prompt_async resumes: client.prompt_async returned or raised
PromptAsyncEnd(c) ==
    /\ turn[c].pc = "awaiting"
    /\ \E out \in ClientOutcomes :
         /\ messages' = IF out.ok THEN ClientReturned(messages, out.text)
                                  ELSE ClientRaised(messages)
         /\ last' = [Done("prompt_async", turn[c].text, SliceTo(turn[c].sent, -1),
                          turn[c].clean, out, out.text, out.err)
                       EXCEPT !.sent = turn[c].sent]
    /\ turn' = [Touched(turn) EXCEPT ![c] = Turn0]

PromptAsyncResume(c) == PromptAsyncEnd(c) /\ UNCHANGED otherVars

\* add_system_message / add_user_message / add_assistant_message
AddRoleMessage ==
    /\ Quiet
    /\ Room(1)
    /\ \E op \in Appenders : \E content \in Contents :
         /\ messages' = Appender(op, messages, content)
         /\ last' = Done(op, content, messages, TRUE, NoOutcome, NoneVal, NoErr)
    /\ UNCHANGED <<turn, otherVars>>

\* get_messages
ReadMessages ==
    /\ last' = Done("get_messages", NoneVal, messages, TRUE, NoOutcome,
                    GetMessages(messages), NoErr)
    /\ UNCHANGED <<messages, turn, otherVars>>

\* clear_messages
ClearMessages ==
    /\ Quiet
    /\ messages' = <<>>
    /\ last' = Done("clear_messages", NoneVal, messages, TRUE, NoOutcome, NoneVal, NoErr)
    /\ UNCHANGED <<turn, otherVars>>

\* drop_messages(n)
DropMessagesCall ==
    /\ Quiet
    /\ \E n \in DropArgs :
         /\ messages' = DropMessages(messages, n)
         /\ last' = Done("drop_messages", n, messages, TRUE, NoOutcome, NoneVal, NoErr)
    /\ UNCHANGED <<turn, otherVars>>

\* drop_exchanges(n)
DropExchangesCall ==
    /\ Quiet
    /\ \E n \in DropArgs :
         /\ messages' = DropExchanges(messages, n)
         /\ last' = Done("drop_exchanges", n, messages, TRUE, NoOutcome, NoneVal, NoErr)
    /\ UNCHANGED <<turn, otherVars>>

NextAgent ==
    \/ Prompt
    \/ \E c \in Turns : PromptAsync(c)
    \/ \E c \in Turns : PromptAsyncResume(c)
    \/ AddRoleMessage
    \/ ReadMessages
    \/ ClearMessages
    \/ DropMessagesCall
    \/ DropExchangesCall

SpecAgent == InitAgent /\ [][NextAgent]_vars

----------------------------------------------------------------------------
(* Claims about ConversationAgent, checked under SpecAgent *)

\* C5: a prompt / prompt_async call that no other call on the agent overlapped
\* leaves, when the client call returned, the history it found followed by
\* {user, text} and {assistant, reply} and returns reply; when the client call
\* raised, the history it found followed by {user, text} alone, and raises the
\* client's exception.
C5_PromptGrowsHistory ==
    (last.op \in {"prompt", "prompt_async"} /\ last.clean) =>
        LET user == Msg("user", last.arg) IN
        IF last.client.ok
        THEN /\ messages = last.before \o <<user, Msg("assistant", last.client.text)>>
             /\ last.ret = last.client.text
             /\ last.err = NoErr
        ELSE /\ messages = last.before \o <<user>>
             /\ last.err = last.client.err
             /\ last.err # NoErr

\* C5 witness: a prompt_async on a non-empty history whose client call raised
C5_Witness ==
    /\ last.op = "prompt_async" /\ last.clean /\ ~last.client.ok
    /\ Len(last.before) >= 1 /\ Len(messages) = Len(last.before) + 1

\* the (1-based) positions of the user messages of h
UserPositions(h) == {i \in 1..Len(h) : h[i].role = "user"}

\* C6: drop_exchanges(n), n >= 1, leaves a history with fewer than n user
\* messages unchanged; otherwise it leaves the prefix that ends just before the
\* n-th user message from the end, whose length is that message's 0-based index.
C6_DropExchanges ==
    (last.op = "drop_exchanges" /\ last.arg >= 1) =>
        LET h == last.before
            users == UserPositions(h)
        IN  IF Cardinality(users) < last.arg
            THEN messages = h
            ELSE \E i \in users :
                    /\ Cardinality({j \in users : j >= i}) = last.arg
                    /\ Len(messages) = i - 1
                    /\ \A j \in 1..(i - 1) : messages[j] = h[j]

\* C6 witness: drop_exchanges(2) cuts a history of four messages down to one
C6_Witness ==
    /\ last.op = "drop_exchanges" /\ last.arg = 2
    /\ Len(last.before) = 4 /\ Len(messages) = 1

\* C7: drop_messages(n) leaves the prefix of length max(0, len - n) when n > 0
\* and the history unchanged when n <= 0, and raises nothing.
C7_DropMessages ==
    last.op = "drop_messages" =>
        LET h == last.before
            keep == IF last.arg > 0 THEN Max(0, Len(h) - last.arg) ELSE Len(h)
        IN  /\ Len(messages) = keep
            /\ \A j \in 1..keep : messages[j] = h[j]
            /\ last.err = NoErr

\* C7 witness: drop_messages(n) with n beyond the length empties the history
C7_Witness ==
    /\ last.op = "drop_messages" /\ last.arg > Len(last.before)
    /\ Len(last.before) >= 2 /\ messages = <<>>


\* The role each appender is to tag its message with
TagOf(op) ==
    CASE op = "add_system_message" -> "system"
      [] op = "add_user_message" -> "user"
      [] op = "add_assistant_message" -> "assistant"

\* C21: each appender leaves the history it found followed by one message of
\* its role with the given content, and get_messages returns the history as
\* it is; so the messages read back are the appended ones in call order.
C21_Appenders ==
    /\ last.op \in Appenders =>
          /\ Len(messages) = Len(last.before) + 1
          /\ messages[Len(messages)] = [role |-> TagOf(last.op), content |-> last.arg]
          /\ \A j \in 1..Len(last.before) : messages[j] = last.before[j]
    /\ last.op = "get_messages" =>
          /\ last.ret = messages
          /\ messages = last.before

\* add_user_message(a); add_assistant_message(b) gives [{user, a}, {assistant, b}]
C21_Witness ==
    /\ last.op = "add_assistant_message"
    /\ last.before = <<[role |-> "user", content |-> "a"]>>
    /\ messages = <<[role |-> "user", content |-> "a"],
                    [role |-> "assistant", content |-> "b"]>>


\* g is h or the first messages of h
IsPrefix(g, h) == Len(g) =< Len(h) /\ \A j \in 1..Len(g) : g[j] = h[j]

\* C26: every step of every operation leaves the history either with
\* messages appended at its end or cut down to a prefix of itself.
C26_AppendOrTruncate ==
    [][IsPrefix(messages, messages') \/ IsPrefix(messages', messages)]_vars

\* a drop has cut a history down to a proper prefix that is not empty
C26_Witness ==
    /\ last.op \in {"drop_messages", "drop_exchanges"}
    /\ Len(messages) >= 2
    /\ Len(messages) < Len(last.before)
    /\ IsPrefix(messages, last.before)


\* C27: the messages a prompt / prompt_async call hands to the client are the
\* agent's history at that moment: what the call found, followed by its user
\* message as the last element; the reply is appended only once the client
\* has returned.
C27_UserBeforeCall ==
    /\ last.op = "prompt" =>
          /\ last.sent = last.before \o <<Msg("user", last.arg)>>
          /\ IsPrefix(last.sent, messages)
          /\ Len(messages) = Len(last.sent) + (IF last.client.ok THEN 1 ELSE 0)
    /\ last.op = "prompt_async_begin" =>
          \E c \in Awaiting :
             /\ turn[c].clean
             /\ turn[c].sent = messages
             /\ messages = last.before \o <<Msg("user", last.arg)>>
    /\ \A c \in Awaiting :
          /\ turn[c].sent # <<>>
          /\ turn[c].sent[Len(turn[c].sent)] = Msg("user", turn[c].text)
          /\ IsPrefix(turn[c].sent, messages)
    /\ (last.op = "prompt_async" /\ last.client.ok) =>
          /\ messages[Len(messages)] = Msg("assistant", last.client.text)
          /\ Len(last.sent) < Len(messages)

\* a prompt on a history of two messages sent three, and its reply is fourth
C27_Witness ==
    /\ last.op = "prompt"
    /\ last.client.ok
    /\ Len(last.before) = 2
    /\ Len(last.sent) = 3
    /\ Len(messages) = 4


\* C28: nothing keeps prompt_async calls on one agent apart. Of two
\* outstanding calls, the request of the later one holds the request of the
\* earlier one, whose last message is that call's unanswered user message.
\* A call that has been alone on the agent finds the history as it sent it,
\* and its reply lands right after its own user message.
C28_OverlapInterleaves ==
    /\ \A c \in Awaiting : \A d \in Awaiting \ {c} :
          /\ Len(turn[c].sent) # Len(turn[d].sent)
          /\ Len(turn[d].sent) < Len(turn[c].sent) =>
                /\ IsPrefix(turn[d].sent, turn[c].sent)
                /\ turn[c].sent[Len(turn[d].sent)] = Msg("user", turn[d].text)
    /\ \A c \in Awaiting :
          (Awaiting = {c} /\ turn[c].clean) => messages = turn[c].sent
    /\ (last.op = "prompt_async" /\ last.clean /\ last.client.ok) =>
          messages = last.sent \o <<Msg("assistant", last.client.text)>>

\* two overlapped calls on an empty history have left user, user, assistant,
\* assistant
C28_Witness ==
    /\ Awaiting = {}
    /\ last.op = "prompt_async"
    /\ ~last.clean
    /\ Len(messages) = 4
    /\ [j \in 1..4 |-> messages[j].role] = <<"user", "user", "assistant", "assistant">>
    /\ messages[1].content # messages[2].content


\* C29: from the history a prompt left, the drops give back the history it
\* found: drop_messages(1) and drop_exchanges(1) after the client raised,
\* drop_messages(2) and drop_exchanges(1) after it returned.
C29_RollbackRestores ==
    (last.op \in {"prompt", "prompt_async"} /\ last.clean) =>
        /\ DropExchanges(messages, 1) = last.before
        /\ DropMessages(messages, IF last.client.ok THEN 2 ELSE 1) = last.before

\* a prompt that failed on a history which already holds a whole turn
C29_Witness ==
    /\ last.op = "prompt"
    /\ ~last.client.ok
    /\ Len(last.before) = 2
    /\ last.before[1].role = "user"
    /\ last.before[2].role = "assistant"
    /\ Len(messages) = 3

----------------------------------------------------------------------------
(* BatchAgent.batch_prompt *)

\* The stub provider of the batch: its reply names the last message it was sent
Answer(msgs) == "re:" \o msgs[Len(msgs)].content

\* the exceptions a provider call raises in SpecBatch
BatchErrors == {k \in ErrorKinds : k.cls \in {"RateLimitError", "Exception"}}
\* the exceptions the handle factory raises in SpecBatch
BatchCreateErrors == {k \in ErrorKinds : k.cls = "Exception"}

RECURSIVE SeqsUpTo(_, _)
SeqsUpTo(S, n) ==
    IF n = 0 THEN {<<>>}
    ELSE LET shorter == SeqsUpTo(S, n - 1)
         IN  shorter \cup {Append(q, x) : q \in {p \in shorter : Len(p) = n - 1}, x \in S}

Batch0 ==
    [pc |-> "idle", prompts |-> <<>>, n_threads |-> 0, result |-> <<>>,
     err |-> NoErr, order |-> <<>>]

\* the process_message tasks batch_prompt created
Items == DOMAIN task

\* asyncio.Semaphore.locked that only looks at the counter's sign
LockedNever(sem) == sem.value < 0

\* asyncio.Semaphore.locked
Locked(sem) == sem.value = 0 \/ sem.waiters # <<>>

\* asyncio.Semaphore._wake_up_next: the first waiter whose future is not done
\* gets the slot
WakeUpNext(sem, tk) ==
    LET pending == {j \in 1..Len(sem.waiters) : tk[sem.waiters[j]] = "waiting"}
    IN  IF pending = {}
        THEN [sem |-> sem, task |-> tk]
        ELSE LET first == CHOOSE j \in pending : \A x \in pending : j <= x
             IN  [sem |-> [sem EXCEPT !.value = @ - 1],
                  task |-> [tk EXCEPT ![sem.waiters[first]] = "woken"]]

\* A release that returns the slot and wakes no waiter
ReleaseNoWake(sem, tk) == [sem |-> [sem EXCEPT !.value = @ + 1], task |-> tk]

\* asyncio.Semaphore.release
Release(sem, tk) == WakeUpNext([sem EXCEPT !.value = @ + 1], tk)

\* asyncio.gather collecting the results in the order of completion
GatherAsCompleted(results, order) == [j \in 1..Len(order) |-> results[order[j]]]

\* asyncio.gather: the results in the order of the awaitables
Gather(results, order) == results

\* gather with return_exceptions: a failed task's exception becomes its result
TaskFinishedLenient(b, i, rqs) ==
    LET order == Append(b.order, i)
        n == Len(b.prompts)
    IN  IF b.pc # "gathering" THEN [b EXCEPT !.order = order]
        ELSE IF Len(order) = n
        THEN [b EXCEPT !.pc = "returned", !.order = order,
                       !.result = Gather([j \in 1..n |-> rqs[j].result], order)]
        ELSE [b EXCEPT !.order = order]

\* asyncio.gather's callback when task i is done: the first exception is set on
\* the future batch_prompt awaits, at once; the result list is set when every
\* task is done
TaskFinished(b, i, rqs) ==
    LET order == Append(b.order, i)
        n == Len(b.prompts)
    IN  IF b.pc # "gathering" THEN [b EXCEPT !.order = order]
        ELSE IF rqs[i].pc = "raised"
        THEN [b EXCEPT !.pc = "raised", !.err = rqs[i].err, !.order = order]
        ELSE IF Len(order) = n
        THEN [b EXCEPT !.pc = "returned", !.order = order,
                       !.result = Gather([j \in 1..n |-> rqs[j].result], order)]
        ELSE [b EXCEPT !.order = order]

\* process_message resting, the slot still held, after its call has ended
SettleHolding(i, sem, tk) ==
    /\ semaphore' = sem
    /\ task' = [tk EXCEPT ![i] = "running"]
    /\ batch' = batch

\* process_message giving its slot up when its call goes to sleep
SettleEarly(i, sem, tk) ==
    IF Finished(req'[i]) \/ req'[i].pc = "sleeping"
    THEN LET fin == IF req'[i].pc = "raised" THEN "failed"
                    ELSE IF req'[i].pc = "sleeping" THEN "running" ELSE "done"
             rel == Release(sem, [tk EXCEPT ![i] = fin])
         IN  /\ semaphore' = rel.sem
             /\ task' = rel.task
             /\ batch' = IF Finished(req'[i]) THEN TaskFinished(batch, i, req')
                                               ELSE batch
    ELSE /\ semaphore' = sem
         /\ task' = [tk EXCEPT ![i] = "running"]
         /\ batch' = batch

\* process_message under a gather that cancels the other tasks when one raises
SettleCancelling(i, sem, tk) ==
    IF Finished(req'[i])
    THEN LET fin == IF req'[i].pc = "raised" THEN "failed" ELSE "done"
             rel == Release(sem, [tk EXCEPT ![i] = fin])
         IN  /\ semaphore' = rel.sem
             /\ task' = IF fin = "failed"
                         THEN [j \in DOMAIN tk |->
                                 IF j = i THEN "failed"
                                 ELSE IF tk[j] \in {"done", "failed"} THEN tk[j]
                                 ELSE "cancelled"]
                         ELSE rel.task
             /\ batch' = TaskFinished(batch, i, req')
    ELSE /\ semaphore' = sem
         /\ task' = [tk EXCEPT ![i] = "running"]
         /\ batch' = batch

\* process_message after a step of its prompt_async call (req' is set): when
\* the call has returned or raised, `async with` releases the semaphore and the
\* task is done. sem, tk: the semaphore and the tasks before that.
Settle(i, sem, tk) ==
    IF Finished(req'[i])
    THEN LET fin == IF req'[i].pc = "raised" THEN "failed" ELSE "done"
             rel == Release(sem, [tk EXCEPT ![i] = fin])
         IN  /\ semaphore' = rel.sem
             /\ task' = rel.task
             /\ batch' = TaskFinished(batch, i, req')
    ELSE /\ semaphore' = sem
         /\ task' = [tk EXCEPT ![i] = "running"]
         /\ batch' = batch

\* The items of a batch sharing one message list that grows item by item
ItemMessagesShared(b, i) == [j \in 1..i |-> U(b.prompts[j])]

\* process_message: the message list made for item i,
\* [{"role": "user", "content": message}]
ItemMessages(b, i) == <<U(b.prompts[i])>>

\* process_message holding the semaphore: the call of client.prompt_async
EnterPrompt(i, sem, tk) ==
    /\ BeginAttempt(i, NewCall("async", ItemMessages(batch, i)), BatchCreateErrors)
    /\ Settle(i, sem, tk)

InitBatch ==
    /\ InitClient({0, 1}, {DEFAULT_BACKOFF_FACTOR})
    /\ req = [r \in Reqs |-> Req0]
    /\ sends = 0
    /\ IdleAgent
    /\ batch = Batch0
    /\ task = <<>>
    /\ semaphore = [value |-> 0, waiters |-> <<>>]
    /\ IdleExtra

\* batch_prompt is called with one of the prompt lists given and runs to
\* `await asyncio.gather(*tasks)`
BatchPromptOf(lists) ==
    /\ batch.pc = "idle"
    /\ \E ps \in lists : \E n \in -1..MaxThreads :
         IF n < 0
         THEN \* asyncio.Semaphore(n_threads) raises ValueError
              /\ batch' = [batch EXCEPT !.pc = "raised", !.prompts = ps, !.n_threads = n,
                              !.err = [cls |-> "ValueError", code |-> 0, at |-> -1,
                                       src |-> "semaphore"]]
              /\ UNCHANGED <<task, semaphore>>
         ELSE /\ batch' = [batch EXCEPT !.pc = IF ps = <<>> THEN "returned" ELSE "gathering",
                              !.prompts = ps, !.n_threads = n,
                              !.result = Gather(<<>>, <<>>)]
              /\ task' = [i \in 1..Len(ps) |-> "created"]
              /\ semaphore' = [value |-> n, waiters |-> <<>>]
    /\ UNCHANGED <<clientVars, req, sends, agentVars, extraVars>>

\* batch_prompt is called
BatchPrompt == BatchPromptOf(SeqsUpTo(Contents, MaxPrompts))

\* the tasks gather created run in the order of the prompts, before anything
\* else the event loop has to do
AllStarted == \A j \in Items : task[j] # "created"

\* A process_message task runs for the first time: it acquires the semaphore,
\* or queues on it
TaskStart(i) ==
    /\ i \in Items
    /\ task[i] = "created"
    /\ \A j \in 1..(i - 1) : task[j] # "created"
    /\ IF Locked(semaphore)
       THEN /\ semaphore' = [semaphore EXCEPT !.waiters = Append(@, i)]
            /\ task' = [task EXCEPT ![i] = "waiting"]
            /\ UNCHANGED <<batch, req, sync_client, async_client, n_created>>
       ELSE EnterPrompt(i, [semaphore EXCEPT !.value = @ - 1], task)
    /\ UNCHANGED <<max_retries, backoff_factor, sends, agentVars, extraVars>>

\* A task that release() handed a slot resumes in acquire(): woken tasks resume
\* in the order they were woken
TaskResume(i) ==
    /\ i \in Items
    /\ task[i] = "woken"
    /\ semaphore.waiters[1] = i
    /\ LET left == [semaphore EXCEPT !.waiters = Tail(@)]
           next == IF left.value > 0 THEN WakeUpNext(left, task)
                                      ELSE [sem |-> left, task |-> task]
       IN  EnterPrompt(i, next.sem, next.task)
    /\ UNCHANGED <<max_retries, backoff_factor, sends, agentVars, extraVars>>

\* the provider call of task i returns
TaskNetReturn(i) ==
    /\ i \in Items /\ AllStarted
    /\ NetReturn(i, Answer(req[i].msgs))
    /\ Settle(i, semaphore, task)
    /\ UNCHANGED <<clientVars, sends, agentVars, extraVars>>

\* the provider call of task i raises
TaskNetRaise(i) ==
    /\ i \in Items /\ AllStarted
    /\ \E k \in BatchErrors : NetRaise(i, k)
    /\ Settle(i, semaphore, task)
    /\ UNCHANGED <<clientVars, sends, agentVars, extraVars>>

\* the backoff sleep of task i ends
TaskWakeUp(i) ==
    /\ i \in Items /\ AllStarted
    /\ WakeUp(i, BatchCreateErrors)
    /\ Settle(i, semaphore, task)
    /\ UNCHANGED <<max_retries, backoff_factor, sends, agentVars, extraVars>>

NextBatch ==
    \/ BatchPrompt
    \/ \E i \in Reqs : TaskStart(i)
    \/ \E i \in Reqs : TaskResume(i)
    \/ \E i \in Reqs : TaskNetReturn(i)
    \/ \E i \in Reqs : TaskNetRaise(i)
    \/ \E i \in Reqs : TaskWakeUp(i)

SpecBatch == InitBatch /\ [][NextBatch]_vars

\* The event loop runs every task that is ready (one created, one handed a
\* slot), every provider call returns or raises in the end, and every sleep
\* ends.
BatchFairness ==
    /\ WF_vars(\E i \in Reqs : TaskStart(i))
    /\ WF_vars(\E i \in Reqs : TaskResume(i))
    /\ \A i \in Reqs : WF_vars(TaskNetReturn(i) \/ TaskNetRaise(i))
    /\ \A i \in Reqs : WF_vars(TaskWakeUp(i))

\* batch_prompt is called with prompts that are all alike: what the prompts
\* say has no part in which task runs when
NextBatchLive ==
    \/ BatchPromptOf(SeqsUpTo({"a"}, MaxPrompts))
    \/ \E i \in Reqs : TaskStart(i)
    \/ \E i \in Reqs : TaskResume(i)
    \/ \E i \in Reqs : TaskNetReturn(i)
    \/ \E i \in Reqs : TaskNetRaise(i)
    \/ \E i \in Reqs : TaskWakeUp(i)

SpecBatchLive == InitBatch /\ [][NextBatchLive]_vars /\ BatchFairness

----------------------------------------------------------------------------
(* Claims about BatchAgent, checked under SpecBatch *)

\* C8: when batch_prompt returns, its result has the length of the prompt list
\* and result[i] is the provider's reply to the one-message history
\* {user, prompts[i]}, whatever the order in which the tasks completed; for the
\* empty prompt list (and a semaphore that could be built, n_threads >= 0) it
\* returns the empty list and no call is made.
C8_BatchResultsInOrder ==
    /\ batch.pc = "returned" =>
          /\ Len(batch.result) = Len(batch.prompts)
          /\ \A i \in 1..Len(batch.prompts) :
                batch.result[i] = Answer(<<Msg("user", batch.prompts[i])>>)
    /\ (batch.pc # "idle" /\ batch.prompts = <<>> /\ batch.n_threads >= 0) =>
          /\ batch.pc = "returned"
          /\ batch.result = <<>>
          /\ \A r \in Reqs : req[r].calls = 0

\* C8 witness: three prompts, not all alike, completed last-first
C8_Witness ==
    /\ batch.pc = "returned" /\ Len(batch.prompts) = 3
    /\ batch.order = <<3, 2, 1>> /\ batch.prompts[1] # batch.prompts[3]

\* the tasks inside client.prompt_async, and those holding a slot
InFlight == {i \in Items : task[i] = "running"}
Holders == {i \in Items : task[i] \in {"woken", "running"}}

\* C9: with n_threads = L >= 1, at most L tasks are ever inside their
\* client.prompt_async call; the semaphore's counter is L less the slots held,
\* and a task waits on the semaphore only while all L slots are held.
C9_AtMostLInFlight ==
    batch.n_threads >= 1 =>
        /\ Cardinality(InFlight) <= batch.n_threads
        /\ semaphore.value = batch.n_threads - Cardinality(Holders)
        /\ \A i \in Items : task[i] = "waiting" =>
              Cardinality(Holders) = batch.n_threads

\* C9 witness: L = 2, two tasks in flight and the third queued
C9_Witness ==
    /\ batch.n_threads = 2 /\ Cardinality(InFlight) = 2
    /\ \E i \in Items : task[i] = "waiting"

\* the tasks that raised
Failed == {i \in Items : task[i] = "failed"}

\* C10: as soon as one task has raised, batch_prompt has raised: the exception
\* is that of the first task to fail, and no result list is returned, also
\* when other tasks returned.
C10_BatchFailsAsAWhole ==
    Failed # {} =>
        LET at == CHOOSE j \in 1..Len(batch.order) :
                     /\ batch.order[j] \in Failed
                     /\ \A x \in 1..(j - 1) : batch.order[x] \notin Failed
        IN  /\ batch.pc = "raised"
            /\ batch.err = req[batch.order[at]].err
            /\ batch.err # NoErr
            /\ batch.result = <<>>

\* C10 witness: one task returned, then another raised, a third still runs
C10_Witness ==
    /\ batch.pc = "raised" /\ Len(batch.order) = 2
    /\ task[batch.order[1]] = "done" /\ task[batch.order[2]] = "failed"
    /\ InFlight # {}





\* C18: every provider call made for item i of a batch, retries included, is
\* given exactly one message, the user message of prompts[i]; nothing of
\* another item or of a ConversationAgent is in it.
C18_BatchItemIsolated ==
    \A i \in Items :
        /\ req[i].pc # "idle" => req[i].msgs = <<Msg("user", batch.prompts[i])>>
        /\ req[i].net >= 1 => req[i].wire = <<Msg("user", batch.prompts[i])>>

\* the second item retries, after the first was answered, with its own prompt
C18_Witness ==
    /\ {1, 2} \subseteq Items
    /\ batch.prompts[1] # batch.prompts[2]
    /\ task[1] = "done"
    /\ req[2].pc = "calling"
    /\ req[2].attempt = 1
    /\ req[2].net = 2
    /\ req[2].wire = <<Msg("user", batch.prompts[2])>>


\* The tasks that have begun and not ended: each rests at an await
Suspended(i) == task[i] \in {"waiting", "woken", "running"}

\* C20 as stated: a task rests nowhere but at its provider call or in its
\* backoff delay.
C20_Original ==
    \A i \in Items : Suspended(i) => req[i].pc \in {"calling", "sleeping"}

\* C20: a task of batch_prompt rests at its provider call, in its backoff
\* delay, or, before its request has begun, in the semaphore's queue; and
\* batch_prompt itself rests at gather only while a task has not ended.
C20_SuspensionPoints ==
    /\ \A i \in Items :
          /\ task[i] = "running" => req[i].pc \in {"calling", "sleeping"}
          /\ task[i] \in {"waiting", "woken"} =>
                /\ req[i].pc = "idle"
                /\ \E j \in 1..Len(semaphore.waiters) : semaphore.waiters[j] = i
          /\ task[i] = "created" => req[i].pc = "idle"
          /\ task[i] \in {"done", "failed"} => Finished(req[i])
    /\ batch.pc = "gathering" => \E i \in Items : task[i] \notin {"done", "failed"}

\* with two slots, one task sleeps, one is at its provider call, and the third
\* is queued on the semaphore
C20_Witness ==
    /\ Items = {1, 2, 3}
    /\ batch.n_threads = 2
    /\ task[1] = "running" /\ req[1].pc = "sleeping"
    /\ task[2] = "running" /\ req[2].pc = "calling"
    /\ task[3] = "waiting"


\* C30: each call on the client counts its own attempts from 0 and has the
\* whole budget of max_retries + 1 of them, whatever the calls before it and
\* beside it did: its attempt index is the number of outcomes it has had
\* itself, and it gives up on a retryable error only at index max_retries.
C30_PerRequestBudget ==
    \A i \in Items :
        /\ req[i].pc = "calling" =>
              /\ req[i].attempt = Len(req[i].trace)
              /\ req[i].calls = req[i].attempt + 1
        /\ req[i].pc = "sleeping" =>
              /\ req[i].attempt + 1 = Len(req[i].trace)
              /\ req[i].sleeps = [j \in 1..(req[i].attempt + 1) |-> j - 1]
        /\ req[i].trace # <<>> => req[i].trace[1].at = 0
        /\ req[i].calls =< max_retries + 1
        /\ (req[i].pc = "raised" /\ ShouldRetry(req[i].err)) =>
              /\ req[i].calls = max_retries + 1
              /\ req[i].err.at = max_retries

\* the first item has used up its attempts, the second is at its retry, and
\* the third starts at attempt 0
C30_Witness ==
    /\ Items = {1, 2, 3}
    /\ max_retries = 1
    /\ req[1].pc = "raised" /\ req[1].calls = 2
    /\ req[2].pc = "calling" /\ req[2].attempt = 1
    /\ req[3].pc = "calling" /\ req[3].attempt = 0 /\ req[3].calls = 1

----------------------------------------------------------------------------
(* SpecPair: a prompt call in slot 1 and, once it has ended, a prompt_async *)
(* call in slot 2 with the same arguments on a client of the same          *)
(* construction, whose attempts are given the outcomes the attempts of the *)
(* first were given.                                                       *)

\* What an attempt was given: a text, or an exception and where it was raised
Outcome(entry) ==
    IF entry.cls = "ok" THEN [cls |-> "ok", code |-> 0, src |-> entry.src, text |-> entry.text]
    ELSE [cls |-> entry.cls, code |-> entry.code, src |-> entry.src, text |-> NoneVal]

\* The attempts of call rq were given what the first attempts of call of were
Replays(rq, of) ==
    /\ Len(rq.trace) =< Len(of.trace)
    /\ \A j \in 1..Len(rq.trace) : Outcome(rq.trace[j]) = Outcome(of.trace[j])

InitPair ==
    /\ InitClient(-1..MaxRetriesBound, {DEFAULT_BACKOFF_FACTOR})
    /\ req = [r \in Reqs |-> Req0]
    /\ sends = 0
    /\ IdleAgent
    /\ IdleBatch
    /\ IdleExtra

pairFrame == <<max_retries, backoff_factor, agentVars, batchVars, extraVars>>

\* BaseClient.prompt is called
PairPrompt ==
    /\ sends = 0
    /\ sends' = 1
    /\ \E m \in SendMsgs :
         BeginAttempt(1, NewCall("sync", m), ErrorKinds)
    /\ UNCHANGED pairFrame

\* its provider call returns
PairReturn ==
    /\ \E t \in Texts : NetReturn(1, t)
    /\ UNCHANGED <<sync_client, async_client, n_created, sends, pairFrame>>

\* its provider call raises
PairRaise ==
    /\ \E k \in ErrorKinds : NetRaise(1, k)
    /\ UNCHANGED <<sync_client, async_client, n_created, sends, pairFrame>>

\* time.sleep returns
PairWakeUp ==
    /\ WakeUp(1, ErrorKinds)
    /\ UNCHANGED <<sends, pairFrame>>

\* BaseClient.prompt_async is called with the arguments prompt was called with
PairPromptAsync ==
    /\ sends = 1
    /\ Finished(req[1])
    /\ sends' = 2
    /\ BeginAttempt(2, NewCall("async", req[1].msgs), ErrorKinds)
    /\ Replays(req'[2], req[1])
    /\ UNCHANGED pairFrame

\* its provider call returns
PairAsyncReturn ==
    /\ \E t \in Texts : NetReturn(2, t)
    /\ Replays(req'[2], req[1])
    /\ UNCHANGED <<sync_client, async_client, n_created, sends, pairFrame>>

\* its provider call raises
PairAsyncRaise ==
    /\ \E k \in ErrorKinds : NetRaise(2, k)
    /\ Replays(req'[2], req[1])
    /\ UNCHANGED <<sync_client, async_client, n_created, sends, pairFrame>>

\* asyncio.sleep returns
PairAsyncWakeUp ==
    /\ WakeUp(2, ErrorKinds)
    /\ Replays(req'[2], req[1])
    /\ UNCHANGED <<sends, pairFrame>>

NextPair ==
    \/ PairPrompt
    \/ PairReturn
    \/ PairRaise
    \/ PairWakeUp
    \/ PairPromptAsync
    \/ PairAsyncReturn
    \/ PairAsyncRaise
    \/ PairAsyncWakeUp

SpecPair == InitPair /\ [][NextPair]_vars

\* The exception a call ended with, apart from the object's identity
ErrOf(rq) == [cls |-> rq.err.cls, code |-> rq.err.code, at |-> rq.err.at,
              src |-> rq.err.src]

\* C13: given the same outcomes attempt by attempt, prompt_async asks for no
\* outcome prompt did not ask for, and ends as prompt ended: the same number
\* of calls of func and of provider calls, the same attempt indices slept
\* on, the same text or the same exception.
C13_SyncAsyncAgree ==
    /\ (sends = 2 /\ req[2].pc = "calling") => Len(req[2].trace) < Len(req[1].trace)
    /\ (sends = 2 /\ req[2].pc = "sleeping") => Len(req[2].trace) < Len(req[1].trace)
    /\ (sends = 2 /\ Finished(req[2])) =>
          /\ req[2].pc = req[1].pc
          /\ req[2].calls = req[1].calls
          /\ req[2].net = req[1].net
          /\ req[2].sleeps = req[1].sleeps
          /\ req[2].result = req[1].result
          /\ ErrOf(req[2]) = ErrOf(req[1])
          /\ Len(req[2].trace) = Len(req[1].trace)

\* both calls slept on attempts 0 and 1 and gave up on the third failure
C13_Witness ==
    /\ sends = 2
    /\ max_retries = 2
    /\ Finished(req[2])
    /\ req[2].pc = "raised"
    /\ req[2].sleeps = <<0, 1>>
    /\ req[1].net = 3

----------------------------------------------------------------------------
(* SpecHooks: a hook of a constructed client is applied, once, to an input *)
(* drawn from a bounded set                                                *)

Variants == {"openai", "anthropic"}

\* The HTTP statuses a generic APIStatusError is drawn with
StatusCodes == {400, 401, 403, 404, 408, 429, 499, 500, 503, 599, 600}

\* The exceptions handed to _should_retry
HookErrors ==
    { [cls |-> "APIStatusError", code |-> c] : c \in StatusCodes }
    \cup { [cls |-> "BadRequestError", code |-> 400],
           [cls |-> "AuthenticationError", code |-> 401],
           [cls |-> "PermissionDeniedError", code |-> 403],
           [cls |-> "NotFoundError", code |-> 404],
           [cls |-> "RateLimitError", code |-> 429],
           [cls |-> "InternalServerError", code |-> 500],
           [cls |-> "InternalServerError", code |-> 503],
           [cls |-> "APIConnectionError", code |-> 0],
           [cls |-> "APITimeoutError", code |-> 0],
           [cls |-> "APIError", code |-> 0],
           [cls |-> "ValueError", code |-> 0],
           [cls |-> "Exception", code |-> 0] }

\* AnthropicClient._convert_messages: the loop from message i on
RECURSIVE ConvertFrom(_, _, _, _)
ConvertFrom(msgs, i, system_message, anthropic_messages) ==
    IF i > Len(msgs)
    THEN [system |-> system_message, messages |-> anthropic_messages]
    ELSE IF msgs[i].role = "system"
         THEN ConvertFrom(msgs, i + 1, msgs[i].content, anthropic_messages)
         ELSE ConvertFrom(msgs, i + 1, system_message,
                          Append(anthropic_messages,
                                 Msg(msgs[i].role, msgs[i].content)))

\* AnthropicClient._convert_messages
ConvertMessages(msgs) == ConvertFrom(msgs, 1, NoneVal, <<>>)

\* AnthropicClient._prompt_sync / _prompt_async: the messages and the
\* top-level system field of the request
AnthropicRequest(msgs) ==
    LET converted == ConvertMessages(msgs)
    IN  [messages |-> converted.messages, system |-> converted.system]

InitHooks ==
    /\ InitClient({DEFAULT_MAX_RETRIES}, 0..MaxFactor)
    /\ req = [r \in Reqs |-> Req0]
    /\ sends = 0
    /\ IdleAgent
    /\ IdleBatch
    /\ hook = Hook0
    /\ heap = Heap0
    /\ gen = Gen0
    /\ prov = Prov0
    /\ overlap = Overlap0

hookFrame == <<clientVars, req, sends, agentVars, batchVars, heap, gen, prov, overlap>>

\* _calc_backoff(attempt) is called
HookCalcBackoff ==
    /\ hook = Hook0
    /\ \E attempt \in 0..MaxAttempt : \E d \in CalcBackoff(attempt) :
         hook' = [op |-> "_calc_backoff", arg |-> attempt, out |-> d]
    /\ UNCHANGED hookFrame

\* _should_retry(error) of either variant is called
HookShouldRetry ==
    /\ hook = Hook0
    /\ \E v \in Variants : \E e \in HookErrors :
         hook' = [op |-> "_should_retry", variant |-> v, arg |-> e,
                  out |-> IF v = "openai" THEN ShouldRetry(e)
                                          ELSE AnthropicShouldRetry(e)]
    /\ UNCHANGED hookFrame

\* AnthropicClient._prompt_sync / _prompt_async builds its request
HookConvert ==
    /\ hook = Hook0
    /\ \E msgs \in SeqsUpTo(Message, MaxConv) :
         hook' = [op |-> "_convert_messages", arg |-> msgs,
                  out |-> AnthropicRequest(msgs)]
    /\ UNCHANGED hookFrame

NextHooks == HookCalcBackoff \/ HookShouldRetry \/ HookConvert

SpecHooks == InitHooks /\ [][NextHooks]_vars

\* C12: the delay _calc_backoff returns for attempt i lies in
\* [factor^i, 1.1 * factor^i] (in tenths of a second: [10 f^i, 11 f^i]).
C12_BackoffInterval ==
    hook.op = "_calc_backoff" =>
        /\ 10 * Pow(backoff_factor, hook.arg) =< hook.out
        /\ hook.out =< 11 * Pow(backoff_factor, hook.arg)

\* both ends of the interval are returned: the third attempt of the default
\* factor waits 4.0 s at the least and 4.4 s at the most
C12_Witness ==
    /\ hook.op = "_calc_backoff"
    /\ backoff_factor = DEFAULT_BACKOFF_FACTOR
    /\ hook.arg = 2
    /\ hook.out = 44


\* The errors the retry contract names as transient
Transient(e) ==
    \/ e.cls \in {"RateLimitError", "APIConnectionError", "APITimeoutError",
                  "InternalServerError"}
    \/ /\ e.cls \in StatusErrors \cup {"APIStatusError"}
       /\ e.code = 429 \/ e.code \in 500..599

\* C16: _should_retry of either variant answers true exactly for rate-limit,
\* connection, timeout and internal-server errors and for status errors with
\* code 429 or 500..599, and false for every other error (400, 401, 403 and
\* 404 among them).
C16_Classification ==
    hook.op = "_should_retry" =>
        /\ hook.out = Transient(hook.arg)
        /\ hook.arg.code \in {400, 401, 403, 404} => ~hook.out

\* a generic status error at the top of the 5xx range is retried
C16_Witness ==
    /\ hook.op = "_should_retry"
    /\ hook.variant = "openai"
    /\ hook.arg = [cls |-> "APIStatusError", code |-> 599]
    /\ hook.out

\* The contents of the system messages of a history, in order
SystemContents(msgs) ==
    LET sys == SelectSeq(msgs, LAMBDA m : m.role = "system")
    IN  [i \in 1..Len(sys) |-> sys[i].content]

\* The contents a top-level system field carries
Carried(field) == IF field = NoneVal THEN <<>> ELSE <<field>>

\* C17: the request of the Anthropic variant carries the content of each
\* system message of the history in its system field, and the other messages
\* in their original order in its message list.
C17_SystemCarried ==
    hook.op = "_convert_messages" =>
        /\ Carried(hook.out.system) = SystemContents(hook.arg)
        /\ hook.out.messages = SelectSeq(hook.arg, LAMBDA m : m.role # "system")


----------------------------------------------------------------------------
(* SpecConstruct: OpenAIClient(...) / AnthropicClient(...) is called        *)

\* What the validation request can be answered with
OkKind == [cls |-> "ok", code |-> 0]
ValidationOutcomes == {OkKind} \cup ErrorKinds

\* _validate_auth letting the provider's exception through
ValidateAuthRaw(variant, built, outcome) ==
    IF ~built
    THEN [calls |-> 0, err |-> [cls |-> "ValueError", cause |-> "test_client"]]
    ELSE IF outcome = OkKind
    THEN [calls |-> 1, err |-> [cls |-> "none", cause |-> "none"]]
    ELSE [calls |-> 1, err |-> [cls |-> outcome.cls, cause |-> outcome.cls]]

\* OpenAIClient._validate_auth / AnthropicClient._validate_auth. built: the
\* test client could be made; outcome: what its one request (models.list,
\* messages.create with max_tokens=1) is answered with. calls: the requests
\* made; err: what is raised, and the exception its message quotes.
ValidateAuth(variant, built, outcome) ==
    IF ~built
    THEN [calls |-> 0, err |-> [cls |-> "ValueError", cause |-> "test_client"]]
    ELSE IF outcome = OkKind
    THEN [calls |-> 1, err |-> [cls |-> "none", cause |-> "none"]]
    ELSE [calls |-> 1, err |-> [cls |-> "ValueError", cause |-> outcome.cls]]

\* OpenAIClient.__init__ / AnthropicClient.__init__ after super().__init__:
\* the import of the provider's package, then _validate_auth
ClientInit(variant, importable, built, outcome) ==
    IF ~importable
    THEN [instance |-> FALSE, validations |-> 0,
          err |-> [cls |-> "ImportError", cause |-> "none"]]
    ELSE LET v == ValidateAuth(variant, built, outcome)
         IN  [instance |-> v.err.cls = "none", validations |-> v.calls,
              err |-> v.err]

InitConstruct ==
    /\ InitClient({DEFAULT_MAX_RETRIES}, {DEFAULT_BACKOFF_FACTOR})
    /\ req = [r \in Reqs |-> Req0]
    /\ sends = 0
    /\ IdleAgent
    /\ IdleBatch
    /\ hook = Hook0
    /\ heap = Heap0
    /\ gen = Gen0
    /\ prov = Prov0
    /\ overlap = Overlap0

\* A provider variant's constructor is called: BaseClient.__init__ sets the
\* fields, then the variant imports its package and validates the key
ConstructClient ==
    /\ \E variant \in Variants : \E importable \in BOOLEAN : \E built \in BOOLEAN :
       \E outcome \in ValidationOutcomes :
         hook' = [op |-> "__init__", variant |-> variant,
                  importable |-> importable, built |-> built, outcome |-> outcome,
                  out |-> ClientInit(variant, importable, built, outcome)]
    /\ max_retries' \in -1..MaxRetriesBound
    /\ backoff_factor' \in {1, DEFAULT_BACKOFF_FACTOR}
    /\ sync_client' = 0
    /\ async_client' = 0
    /\ n_created' = [sync |-> 0, async |-> 0]
    /\ UNCHANGED <<req, sends, agentVars, batchVars, heap, gen, prov, overlap>>

NextConstruct == ConstructClient

SpecConstruct == InitConstruct /\ [][NextConstruct]_vars

----------------------------------------------------------------------------
(* SpecCopy: the list get_messages returns, in the hands of its caller.    *)
(* A message is a dict object: the lists hold references to it.            *)

\* What a reader of list l sees: the role and content of each dict in it
View(l) == [i \in 1..Len(l) |-> heap.store[l[i]]]

\* list.copy(): a new list holding the same dict objects
ListCopy(l) == [i \in 1..Len(l) |-> l[i]]

\* l without its i-th element
RemoveAt(l, i) == SubSeq(l, 1, i - 1) \o SubSeq(l, i + 1, Len(l))

InitCopy ==
    /\ InitClient({DEFAULT_MAX_RETRIES}, {DEFAULT_BACKOFF_FACTOR})
    /\ req = [r \in Reqs |-> Req0]
    /\ sends = 0
    /\ IdleAgent
    /\ IdleBatch
    /\ hook = Hook0
    /\ heap = Heap0
    /\ gen = Gen0
    /\ prov = Prov0
    /\ overlap = Overlap0

copyFrame == <<clientVars, req, sends, agentVars, batchVars, hook, gen, prov, overlap>>

\* ConversationAgent.add_message: a new dict is appended to self.messages
CopyAddMessage ==
    /\ Len(heap.store) < MaxObjs
    /\ \E m \in Message :
         heap' = [heap EXCEPT !.store = Append(@, m),
                              !.agent = Append(@, Len(heap.store) + 1),
                              !.expect = Append(@, m)]
    /\ UNCHANGED copyFrame

\* ConversationAgent.get_messages: the caller is handed self.messages.copy()
CopyGetMessages ==
    /\ heap' = [heap EXCEPT !.got = ListCopy(heap.agent), !.held = TRUE]
    /\ UNCHANGED copyFrame

\* the caller appends a dict of its own to the list it holds
CallerAppend ==
    /\ heap.held
    /\ Len(heap.store) < MaxObjs
    /\ \E m \in Message :
         heap' = [heap EXCEPT !.store = Append(@, m),
                              !.got = Append(@, Len(heap.store) + 1)]
    /\ UNCHANGED copyFrame

\* the caller removes an element of the list it holds
CallerRemove ==
    /\ heap.held
    /\ \E i \in 1..Len(heap.got) : heap' = [heap EXCEPT !.got = RemoveAt(@, i)]
    /\ UNCHANGED copyFrame

\* the caller replaces an element of the list it holds by a dict of its own
CallerReplace ==
    /\ heap.held
    /\ Len(heap.store) < MaxObjs
    /\ \E i \in 1..Len(heap.got) : \E m \in Message :
         heap' = [heap EXCEPT !.store = Append(@, m),
                              !.got = [@ EXCEPT ![i] = Len(heap.store) + 1]]
    /\ UNCHANGED copyFrame

\* the caller assigns the content of a message in the list it holds
CallerSetContent ==
    /\ heap.held
    /\ \E i \in 1..Len(heap.got) : \E c \in Contents :
         heap' = [heap EXCEPT !.store[heap.got[i]].content = c]
    /\ UNCHANGED copyFrame

\* the caller assigns the role of a message in the list it holds
CallerSetRole ==
    /\ heap.held
    /\ \E i \in 1..Len(heap.got) : \E r \in Roles :
         heap' = [heap EXCEPT !.store[heap.got[i]].role = r]
    /\ UNCHANGED copyFrame

NextCopy ==
    \/ CopyAddMessage
    \/ CopyGetMessages
    \/ CallerAppend
    \/ CallerRemove
    \/ CallerReplace
    \/ CallerSetContent
    \/ CallerSetRole

SpecCopy == InitCopy /\ [][NextCopy]_vars

\* C11: whatever the caller does to the list get_messages returned, or to a
\* message in it, the agent's history reads as the agent's own operations
\* made it.
C11_IndependentCopy == View(heap.agent) = heap.expect

----------------------------------------------------------------------------
(* TextGenerator (q/generators/text.py): conversation_history and the calls
   that read and write it.  A text is a sequence of characters; the alphabet is
   a blank and letters, with no markdown in it. *)

MaxGenCalls == 2

InputTexts == {<<>>, <<" ">>, <<" ", "x">>}
ReplyTexts == {<<>>, <<"y", " ">>}
CommandTypes == {"default", "explain", ""}

\* config/models.py: the members of MessageRole and the value of each
MessageRole == {"USER", "ASSISTANT", "DEVELOPER"}
RoleValue(member) ==
    CASE member = "USER" -> "user"
      [] member = "ASSISTANT" -> "assistant"
      [] member = "DEVELOPER" -> "developer"
\* MessageRole(value): the member of that value; none: ValueError
RoleOf(value) ==
    IF \E m \in MessageRole : RoleValue(m) = value
    THEN CHOOSE m \in MessageRole : RoleValue(m) = value
    ELSE "ValueError"

\* Message(role, content), role a member of MessageRole
QMessage(role, content) == [role |-> role, content |-> content]

\* str.strip() of a text
RECURSIVE LStrip(_)
LStrip(t) == IF t # <<>> /\ Head(t) = " " THEN LStrip(Tail(t)) ELSE t
RECURSIVE RStrip(_)
RStrip(t) ==
    IF t # <<>> /\ t[Len(t)] = " " THEN RStrip(SubSeq(t, 1, Len(t) - 1)) ELSE t
StripNothing(t) == t
Strip(t) == RStrip(LStrip(t))

\* ResponseProcessor.process_text_response: on a text without markdown (no
\* fence, link, backquote or newline) what is left of it is the strip()
Process(t) == Strip(t)

\* Message.to_dict
ToDictByName(m) == [role |-> m.role, content |-> m.content]
ToDict(m) == [role |-> RoleValue(m.role), content |-> m.content]

\* Message.from_dict: data["role"], MessageRole(...), data["content"] in this
\* order, each of which may raise
FromDict(d) ==
    IF "role" \notin DOMAIN d THEN [err |-> "KeyError", msg |-> NoData]
    ELSE IF RoleOf(d.role) = "ValueError"
         THEN [err |-> "ValueError", msg |-> NoData]
    ELSE IF "content" \notin DOMAIN d THEN [err |-> "KeyError", msg |-> NoData]
    ELSE [err |-> "none", msg |-> QMessage(RoleOf(d.role), d.content)]

\* export_conversation: the dict it returns
ExportOf(h) ==
    [messages |-> [i \in 1..Len(h) |-> ToDict(h[i])],
     provider |-> "mock", version |-> "2.0"]

\* import_conversation: the loop over data['messages'], an entry that raises
\* ValueError or KeyError being skipped
RECURSIVE ImportLoop(_)
ImportLoop(entries) ==
    IF entries = <<>> THEN <<>>
    ELSE LET r == FromDict(Head(entries))
         IN  IF r.err \in {"ValueError", "KeyError"}
             THEN ImportLoop(Tail(entries))
             ELSE <<r.msg>> \o ImportLoop(Tail(entries))

\* import_conversation: the history it leaves
ImportOf(h, data) ==
    IF "messages" \in DOMAIN data THEN ImportLoop(data.messages) ELSE h

\* The data import_conversation is given, besides what export_conversation
\* returned: the entries of tests/test_text_generator.py (valid, no role key,
\* valid, unknown role), an entry without content, a dict without 'messages'
ImportData ==
    { [messages |-> << [role |-> "user", content |-> <<"x">>],
                       [invalid |-> "data"],
                       [role |-> "assistant", content |-> <<"y">>],
                       [role |-> "unknown_role", content |-> <<"x">>] >>],
      [messages |-> << [role |-> "developer", content |-> <<"x">>],
                       [role |-> "user"],
                       [content |-> <<"x">>] >>],
      [messages |-> <<>>],
      [provider |-> "mock"] }

\* What provider.generate_text does: it returns a response with a text, or
\* raises
ProviderOutcomes ==
    [raises : {"none"}, text : ReplyTexts]
        \cup [raises : {"RuntimeError", "GenerationError"}, text : {<<>>}]

\* command.get_messages(text): the default command's (nothing stored) and the
\* explain command's (its instruction first)
CommandMessages(cmd, text) ==
    IF cmd = "default" THEN <<QMessage("USER", text)>>
    ELSE <<QMessage("DEVELOPER", <<"e">>), QMessage("USER", <<"E">> \o text)>>

\* The except clauses of generate / generate_with_history
Reraised(err) ==
    IF err \in {"GenerationError", "ValidationError"} THEN err
    ELSE "GenerationError"

\* provider.generate_text(request) and what the caller makes of the response
Provided(request, out) ==
    IF out.raises # "none"
    THEN [err |-> Reraised(out.raises), ret |-> <<>>, called |-> 1,
          request |-> request]
    ELSE IF out.text = <<>>
    THEN [err |-> "GenerationError", ret |-> <<>>, called |-> 1,
          request |-> request]
    ELSE [err |-> "none", ret |-> Process(out.text), called |-> 1,
          request |-> request]

\* generate(text, command_type), the provider answering out
Generate(text, cmd, out) ==
    IF Strip(text) = <<>>
    THEN [err |-> "ValidationError", ret |-> <<>>, called |-> 0,
          request |-> <<>>]
    ELSE IF cmd = ""
    THEN [err |-> "IndexError", ret |-> <<>>, called |-> 0, request |-> <<>>]
    ELSE Provided(CommandMessages(cmd, text), out)

\* conversation_history.append of the user's and of the assistant's message
UserTurnSkipped(h, text) == h
UserTurn(h, text) == Append(h, QMessage("USER", text))
AssistantTurn(h, text) == Append(h, QMessage("ASSISTANT", text))

\* generate_with_history(text, command_type), the provider answering out:
\* the outcome, and the history it leaves
GenerateWithHistory(h, text, cmd, out) ==
    IF Strip(text) = <<>>
    THEN [err |-> "ValidationError", ret |-> <<>>, called |-> 0,
          request |-> <<>>, history |-> h]
    ELSE LET h1 == UserTurn(h, text)
             r == IF cmd = "default" THEN Provided(h1, out)
                                     ELSE Generate(text, cmd, out)
         IN  [err |-> IF r.err = "none" THEN "none" ELSE Reraised(r.err),
              ret |-> r.ret, called |-> r.called, request |-> r.request,
              history |-> IF r.err = "none" THEN AssistantTurn(h1, r.ret)
                                            ELSE h1]

genFrame == <<clientVars, req, sends, agentVars, batchVars, hook, heap, prov, overlap>>

InitGenerator ==
    /\ InitClient({DEFAULT_MAX_RETRIES}, {DEFAULT_BACKOFF_FACTOR})
    /\ req = [r \in Reqs |-> Req0]
    /\ sends = 0
    /\ IdleAgent
    /\ IdleBatch
    /\ IdleExtra

\* generate(text, command_type) is called
GenGenerate ==
    /\ gen.n < MaxGenCalls
    /\ \E text \in InputTexts : \E cmd \in CommandTypes : \E out \in ProviderOutcomes :
         LET r == Generate(text, cmd, out)
         IN  gen' = [gen EXCEPT !.n = @ + 1, !.calls = @ + r.called,
                                !.request = r.request,
                                !.exported = NoData, !.snap = <<>>,
                                !.op = "generate", !.text = text, !.cmd = cmd,
                                !.arg = NoData, !.before = gen.history,
                                !.called = gen.calls, !.ret = r.ret,
                                !.err = r.err,
                                !.reply = IF r.called = 1 THEN out.text ELSE <<>>]
    /\ UNCHANGED genFrame

\* generate_with_history(text, command_type) is called
GenGenerateWithHistory ==
    /\ gen.n < MaxGenCalls
    /\ \E text \in InputTexts : \E cmd \in CommandTypes : \E out \in ProviderOutcomes :
         LET r == GenerateWithHistory(gen.history, text, cmd, out)
         IN  gen' = [gen EXCEPT !.history = r.history,
                                !.n = @ + 1, !.calls = @ + r.called,
                                !.request = r.request,
                                !.exported = NoData, !.snap = <<>>,
                                !.op = "generate_with_history", !.text = text,
                                !.cmd = cmd, !.arg = NoData,
                                !.before = gen.history, !.called = gen.calls,
                                !.ret = r.ret, !.err = r.err,
                                !.reply = IF r.called = 1 THEN out.text ELSE <<>>,
                                !.ok = IF r.err = "none" THEN @ + 1 ELSE @,
                                !.fresh = @ /\ (r.err = "none"
                                                  \/ r.history = gen.history)]
    /\ UNCHANGED genFrame

\* clear_history() is called
GenClearHistory ==
    /\ gen' = [gen EXCEPT !.history = <<>>, !.op = "clear_history",
                          !.text = <<>>, !.cmd = "default", !.arg = NoData,
                          !.request = <<>>,
                          !.before = gen.history, !.called = gen.calls,
                          !.ret = <<>>, !.err = "none", !.reply = <<>>,
                          !.fresh = FALSE]
    /\ UNCHANGED genFrame

\* export_conversation() is called
GenExportConversation ==
    /\ gen' = [gen EXCEPT !.op = "export_conversation",
                          !.text = <<>>, !.cmd = "default", !.arg = NoData,
                          !.request = <<>>,
                          !.before = gen.history, !.called = gen.calls,
                          !.ret = <<>>, !.err = "none", !.reply = <<>>,
                          !.exported = ExportOf(gen.history),
                          !.snap = gen.history]
    /\ UNCHANGED genFrame

\* import_conversation(data) is called, with what export_conversation returned
\* or with other data
GenImportConversation ==
    /\ \E data \in ImportData \cup ({gen.exported} \ {NoData}) :
         gen' = [gen EXCEPT !.history = ImportOf(gen.history, data),
                            !.op = "import_conversation",
                            !.text = <<>>, !.cmd = "default", !.arg = data,
                            !.request = <<>>,
                            !.before = gen.history, !.called = gen.calls,
                            !.ret = <<>>, !.err = "none", !.reply = <<>>,
                            !.fresh = FALSE]
    /\ UNCHANGED genFrame

NextGenerator ==
    \/ GenGenerate
    \/ GenGenerateWithHistory
    \/ GenClearHistory
    \/ GenExportConversation
    \/ GenImportConversation

SpecGenerator == InitGenerator /\ [][NextGenerator]_vars

----------------------------------------------------------------------------
(* Claims about TextGenerator, under SpecGenerator *)

Blank(t) == \A i \in 1..Len(t) : t[i] = " "
Alternating(h) ==
    \A i \in 1..Len(h) : h[i].role = IF i % 2 = 1 THEN "USER" ELSE "ASSISTANT"

\* C22: a generate_with_history call that returns leaves the history it found
\* plus two messages, USER with the text given and ASSISTANT with the processed
\* reply, which is what it returns. A generator that nothing else has touched
\* has, after k such calls, 2k messages, roles alternating from USER. For the
\* default command the request the provider gets is the history found plus the
\* new user message, 2i-1 messages on the i-th such call.
C22_HistoryPairs ==
    /\ (gen.op = "generate_with_history" /\ gen.err = "none") =>
          /\ gen.history = gen.before \o
                 << [role |-> "USER", content |-> gen.text],
                    [role |-> "ASSISTANT", content |-> gen.ret] >>
          /\ gen.ret = Process(gen.reply)
    /\ gen.fresh => /\ Len(gen.history) = 2 * gen.ok
                    /\ Alternating(gen.history)
    /\ (gen.op = "generate_with_history" /\ gen.cmd = "default"
            /\ gen.calls > gen.called) =>
          /\ gen.request = Append(gen.before,
                                  [role |-> "USER", content |-> gen.text])
          /\ (gen.fresh /\ gen.err = "none") =>
                 Len(gen.request) = 2 * gen.ok - 1
C22_Witness ==
    /\ gen.op = "generate_with_history"
    /\ gen.cmd = "default"
    /\ gen.err = "none"
    /\ gen.fresh
    /\ gen.ok = 2
    /\ Len(gen.request) = 3
    /\ Len(gen.history) = 4

\* C23: generate and generate_with_history given an empty or a blank text
\* raise ValidationError, without a call of the provider and with the history
\* as it was.
C23_EmptyTextRejected ==
    (gen.op \in {"generate", "generate_with_history"} /\ Blank(gen.text)) =>
        /\ gen.err = "ValidationError"
        /\ gen.calls = gen.called
        /\ gen.history = gen.before
C23_Witness ==
    /\ gen.op = "generate_with_history"
    /\ gen.text = <<" ">>
    /\ gen.err = "ValidationError"
    /\ gen.before # <<>>
    /\ gen.calls > 0

ValidEntry(d) ==
    /\ {"role", "content"} \subseteq DOMAIN d
    /\ d.role \in {"user", "assistant", "developer"}
MemberOfValue(v) ==
    CASE v = "user" -> "USER"
      [] v = "assistant" -> "ASSISTANT"
      [] v = "developer" -> "DEVELOPER"

\* C24: import_conversation of what export_conversation returned leaves the
\* history that was exported, whatever clear_history did in between; and
\* import_conversation of any list of entries leaves the entries that have
\* both keys and a known role, in their order.
C24_RoundTrip ==
    /\ (gen.op = "import_conversation" /\ gen.exported # NoData
            /\ gen.arg = gen.exported) =>
          gen.history = gen.snap
    /\ (gen.op = "import_conversation" /\ "messages" \in DOMAIN gen.arg) =>
          LET kept == SelectSeq(gen.arg.messages, ValidEntry)
          IN  gen.history =
                  [i \in 1..Len(kept) |->
                      [role |-> MemberOfValue(kept[i].role),
                       content |-> kept[i].content]]
C24_Witness ==
    /\ gen.op = "import_conversation"
    /\ gen.exported # NoData
    /\ gen.arg = gen.exported
    /\ gen.before = <<>>
    /\ Len(gen.history) = 4

----------------------------------------------------------------------------
(* OpenAIProvider._get_client (q/providers/openai.py): the key it takes, the
   validation loop and the cached client *)

MaxGets == 3
MaxKeyTries == 2

ApiKeys == {"k1", "k2"}
\* What openai.OpenAI(api_key).models.list() does: it returns, raises an
\* openai.APIError, or raises something else
ValidationResults == {"ok", "APIError", "OtherError"}

\* `if self._client is not None`
CachedNever(p) == FALSE
Cached(p) == p.client # NoClient

\* _api_key, else the configuration's key; "None": the user is asked
KeyAtHand(p) == IF p.api_key # "None" THEN p.api_key ELSE p.stored

\* getpass.getpass answered by k, and config._save_resource('openai_key', k)
PromptAndSave(p, k) ==
    [p EXCEPT !.key = k, !.stored = k, !.prompts = @ + 1, !.saves = @ + 1]

provFrame == <<clientVars, req, sends, agentVars, batchVars, hook, heap, gen, overlap>>

\* The provider is constructed with a key or without one, the configuration
\* holding a key or none
InitProvider ==
    /\ InitClient({DEFAULT_MAX_RETRIES}, {DEFAULT_BACKOFF_FACTOR})
    /\ req = [r \in Reqs |-> Req0]
    /\ sends = 0
    /\ IdleAgent
    /\ IdleBatch
    /\ hook = Hook0
    /\ heap = Heap0
    /\ gen = Gen0
    /\ overlap = Overlap0
    /\ \E k \in ApiKeys \cup {"None"} : \E st \in ApiKeys \cup {"None"} :
         prov = [Prov0 EXCEPT !.api_key = k, !.stored = st]

\* _get_client() is called: it returns the cached client, or takes a key (the
\* user's, if there is none) and enters the loop
GetClient ==
    /\ prov.pc = "idle"
    /\ prov.gets < MaxGets
    /\ IF Cached(prov)
       THEN prov' = [prov EXCEPT !.gets = @ + 1, !.hits = @ + 1,
                                 !.ret = prov.client, !.err = "none"]
       ELSE \E k \in ApiKeys :
              LET p == [prov EXCEPT !.gets = @ + 1, !.pc = "loop",
                                    !.ret = NoClient, !.err = "none"]
              IN  prov' = IF KeyAtHand(prov) # "None"
                          THEN [p EXCEPT !.key = KeyAtHand(prov)]
                          ELSE PromptAndSave(p, k)
    /\ UNCHANGED provFrame

\* One turn of the loop: the client is constructed and models.list() called;
\* the client is cached and returned, or the user is asked for another key
\* which is saved, or the exception leaves _get_client
ValidateKey ==
    /\ prov.pc = "loop"
    /\ \E out \in ValidationResults : \E k \in ApiKeys :
         LET entry == [key |-> prov.key, out |-> out, get |-> prov.gets,
                       prompts |-> prov.prompts, saves |-> prov.saves,
                       stored |-> prov.stored]
             p == [prov EXCEPT !.constructed = @ + 1, !.validated = @ + 1,
                               !.log = Append(@, entry)]
             client == [key |-> prov.key, id |-> p.constructed]
         IN  CASE out = "ok" ->
                    prov' = [p EXCEPT !.client = client, !.ret = client,
                                      !.pc = "idle",
                                      !.since = <<p.constructed, p.validated>>]
               [] out = "APIError" ->
                    /\ prov.prompts < MaxKeyTries
                    /\ prov' = PromptAndSave(p, k)
               [] out = "OtherError" ->
                    prov' = [p EXCEPT !.err = "OtherError", !.pc = "idle"]
    /\ UNCHANGED provFrame

NextProvider == GetClient \/ ValidateKey

SpecProvider == InitProvider /\ [][NextProvider]_vars

----------------------------------------------------------------------------
(* Claims about OpenAIProvider._get_client, under SpecProvider *)

----------------------------------------------------------------------------
(* Further claims about the retry wrapper, under SpecRetry *)

\* C31: in one prompt / prompt_async call the backoff sleeps so far are those
\* for the attempt indices 0, 1, ... in this order, one after each attempt but
\* the latest: while an attempt is under way or once the call has ended after
\* m >= 1 invocations of func there were m - 1 sleeps; a sleep under way
\* follows a failed attempt that is not the last one allowed, and its delay is
\* the one computed for that attempt's index.
C31_SleepsBetweenAttempts ==
    /\ R.sleeps = [i \in 1..Len(R.sleeps) |-> i - 1]
    /\ (R.pc = "calling" \/ (Finished(R) /\ R.calls >= 1)) =>
          Len(R.sleeps) = R.calls - 1
    /\ R.pc = "sleeping" =>
          /\ Len(R.sleeps) = R.calls
          /\ R.attempt = R.calls - 1
          /\ R.attempt < max_retries
          /\ R.delay \in CalcBackoff(R.attempt)
    /\ R.pc # "sleeping" => R.delay = 0
C31_Witness ==
    /\ R.mode = "async"
    /\ R.pc = "raised"
    /\ R.calls = 3
    /\ R.sleeps = <<0, 1>>
    /\ max_retries = 2

\* C35: whatever max_retries is (0 and negative values included), a call that
\* has ended invoked func at least once, and one that returned returned the
\* text of an attempt that succeeded.
C35_AtLeastOneCall ==
    /\ Finished(R) => R.calls >= 1
    /\ R.pc = "returned" =>
          /\ R.trace # <<>>
          /\ R.trace[Len(R.trace)].cls = "ok"
          /\ R.result = R.trace[Len(R.trace)].text

----------------------------------------------------------------------------
(* Further claims about BatchAgent, under SpecBatch *)

Sleeping == {i \in Items : req[i].pc = "sleeping"}

\* C32: an item of a batch holds its slot from the start of its prompt_async
\* call to its end, its provider calls and its backoff sleeps alike: the
\* semaphore's counter is n_threads less the items that hold a slot, an item
\* is done only when its call has returned or raised, and while n_threads
\* items sleep the semaphore is locked and no queued item has been handed a
\* slot.
C32_SlotHeldThroughRetries ==
    (batch.pc # "idle" /\ batch.n_threads >= 0) =>
        /\ \A i \in Items :
              /\ req[i].pc \in {"calling", "sleeping"} <=> task[i] = "running"
              /\ Finished(req[i]) <=> task[i] \in {"done", "failed"}
        /\ semaphore.value = batch.n_threads - Cardinality(Holders)
        /\ Sleeping \subseteq Holders
        /\ (Items # {} /\ Cardinality(Sleeping) = batch.n_threads) =>
              /\ Locked(semaphore)
              /\ \A i \in Items \ Sleeping :
                    task[i] \in {"created", "waiting", "done", "failed"}
\* both slots are held by sleeping items and the third item is queued
C32_Witness ==
    /\ Items = {1, 2, 3}
    /\ batch.n_threads = 2
    /\ Sleeping = {1, 2}
    /\ task[3] = "waiting"
    /\ semaphore.value = 0

\* C33: once batch_prompt has raised, and at the step at which it raises, no
\* item is cancelled: a queued item stays queued or is handed a slot, an item
\* handed a slot goes on to its call, an item inside its call stays there or
\* ends by its own return or raise, and no provider call made is taken back.
C33_OthersNotCancelled ==
    [][(batch'.pc = "raised") =>
          \A i \in (DOMAIN task) \cap (DOMAIN task') :
             /\ task[i] = "created" => task'[i] \in {"created", "waiting", "running", "done", "failed"}
             /\ task[i] = "waiting" => task'[i] \in {"waiting", "woken"}
             /\ task[i] = "woken" => task'[i] \in {"woken", "running", "done", "failed"}
             /\ task[i] = "running" => task'[i] \in {"running", "done", "failed"}
             /\ task'[i] \in {"done", "failed"} => Finished(req'[i])
             /\ req'[i].net >= req[i].net]_vars
\* one slot: the first item raised, and with it batch_prompt; the second item
\* was queued then and is now at its provider call, the third is still queued
C33_Witness ==
    /\ Items = {1, 2, 3}
    /\ batch.n_threads = 1
    /\ batch.pc = "raised"
    /\ batch.order = <<1>>
    /\ task[1] = "failed"
    /\ task[2] = "running" /\ req[2].pc = "calling" /\ req[2].net = 1
    /\ task[3] = "waiting"

AllEnded == \A i \in Items : task[i] \in {"done", "failed"}

\* C34: with n_threads >= 1, the event loop running what is ready and every
\* provider call and sleep ending, a batch_prompt call that awaits its items
\* leads to every item having held a slot and ended, batch_prompt having
\* returned or raised. With n_threads = 0 and a prompt list that is not empty
\* batch_prompt stays at its gather and no item ever begins its call.
C34_BatchTerminates ==
    /\ (batch.pc = "gathering" /\ batch.n_threads >= 1)
          ~> (AllEnded /\ batch.pc \in {"returned", "raised"})
    /\ []((batch.pc # "idle" /\ batch.n_threads = 0 /\ batch.prompts # <<>>) =>
             /\ batch.pc = "gathering"
             /\ \A i \in Items : /\ task[i] \in {"created", "waiting"}
                                 /\ req[i].pc = "idle"
                                 /\ req[i].calls = 0)
\* three items went through one slot, one after the other, and all ended
C34_Witness ==
    /\ Items = {1, 2, 3}
    /\ batch.n_threads = 1
    /\ batch.pc = "returned"
    /\ AllEnded
    /\ \A i \in Items : req[i].calls = 2

\* C36: however the prompt_async calls of a batch's items interleave on a
\* client not used before, the async handle factory returns a handle at most
\* once, exactly once when a provider call has been made, and every provider
\* call of every item goes through that one handle, which is the cached one.
C36_AsyncHandleOnce ==
    /\ n_created.async =< 1
    /\ n_created.sync = 0
    /\ async_client = n_created.async
    /\ (\E i \in Items : req[i].net >= 1) => n_created.async = 1
    /\ \A i \in Items : req[i].net >= 1 => req[i].handle = async_client
\* three items begin together, each at its first provider call
C36_Witness ==
    /\ Items = {1, 2, 3}
    /\ batch.n_threads = 3
    /\ \A i \in Items : req[i].pc = "calling" /\ req[i].attempt = 0
    /\ n_created.async = 1
    /\ \A i \in Items : req[i].handle = 1

----------------------------------------------------------------------------
(* Further claims about ConversationAgent, under SpecAgent *)

\* C37: a ConversationAgent just constructed has an empty history when no
\* system prompt was given, and the one message {system, system_prompt} when
\* one was given, the empty string included.
C37_SeededHistory ==
    last.op = "init" =>
        messages = IF last.arg = NoneVal THEN <<>>
                   ELSE <<[role |-> "system", content |-> last.arg]>>

----------------------------------------------------------------------------
(* SpecDrop: drop_exchanges on an agent whose history add_message has built to
   any list of messages up to MaxDropLen *)

MaxDropLen == 3

InitDrop ==
    /\ InitClient({DEFAULT_MAX_RETRIES}, {DEFAULT_BACKOFF_FACTOR})
    /\ req = [r \in Reqs |-> Req0]
    /\ sends = 0
    /\ messages \in SeqsUpTo(Message, MaxDropLen)
    /\ last = Done("add_message", NoneVal, <<>>, TRUE, NoOutcome, NoneVal, NoErr)
    /\ turn = [c \in Turns |-> Turn0]
    /\ IdleBatch
    /\ IdleExtra

NextDrop == DropExchangesCall

SpecDrop == InitDrop /\ [][NextDrop]_vars

\* C38: drop_exchanges(n) with n <= 0 leaves the history as it is; when
\* drop_exchanges(n) changes the history, what is left is the part of it before
\* a user message, every message of that part (a system message at the head
\* included) where and as it was, and the user messages are n fewer.
C38_DropExchangesFrame ==
    last.op = "drop_exchanges" =>
        LET h == last.before
            n == last.arg
        IN  /\ n <= 0 => messages = h
            /\ messages # h =>
                  /\ Len(messages) < Len(h)
                  /\ \A j \in 1..Len(messages) : messages[j] = h[j]
                  /\ h[Len(messages) + 1].role = "user"
                  /\ Cardinality(UserPositions(h))
                        - Cardinality(UserPositions(messages)) = n
\* drop_exchanges(1) on system, user, assistant leaves the system message
C38_Witness ==
    /\ last.op = "drop_exchanges"
    /\ last.arg = 1
    /\ Len(last.before) = 3
    /\ last.before[1].role = "system"
    /\ last.before[2].role = "user"
    /\ messages = <<last.before[1]>>

----------------------------------------------------------------------------
(* SpecOverlap: prompt_async calls on one ConversationAgent, overlapping as the
   event loop lets them, with a record of the calls begun since the agent was
   last quiet *)

overlapFrame == <<clientVars, req, sends, batchVars, hook, heap, gen, prov>>

\* prompt_async is called
OverlapBegin(c) ==
    /\ PromptAsyncBegin(c)
    /\ overlap' = IF Awaiting = {}
                  THEN [initial |-> messages, users |-> <<turn'[c].text>>,
                        replies |-> <<>>, failed |-> 0]
                  ELSE [overlap EXCEPT !.users = Append(@, turn'[c].text)]
    /\ UNCHANGED overlapFrame

\* a prompt_async call resumes and ends
OverlapEnd(c) ==
    /\ PromptAsyncEnd(c)
    /\ overlap' = IF last'.client.ok
                  THEN [overlap EXCEPT !.replies = Append(@, last'.client.text)]
                  ELSE [overlap EXCEPT !.failed = @ + 1]
    /\ UNCHANGED overlapFrame

NextOverlap ==
    \/ \E c \in Turns : OverlapBegin(c)
    \/ \E c \in Turns : OverlapEnd(c)

SpecOverlap == InitAgent /\ [][NextOverlap]_vars

\* how often message m is in history h
Count(h, m) == Cardinality({i \in 1..Len(h) : h[i] = m})
OfRole(role, texts) == [i \in 1..Len(texts) |-> [role |-> role, content |-> texts[i]]]

\* C39: of the prompt_async calls begun since the agent was quiet, c in
\* number, of which s have returned, the history holds, besides what it held
\* before, the user message of each once and the reply of each that returned
\* once, and nothing else: its length is the length before plus c + s, and
\* every message is in it as often as before plus as often as it is among
\* those user messages and replies. When all c calls have ended, s of them
\* have returned and c - s have raised.
C39_NothingLostOrDuplicated ==
    LET c == Len(overlap.users)
        s == Len(overlap.replies)
        added == OfRole("user", overlap.users) \o OfRole("assistant", overlap.replies)
    IN  c >= 1 =>
          /\ Len(messages) = Len(overlap.initial) + c + s
          /\ IsPrefix(overlap.initial, messages)
          /\ \A i \in 1..Len(messages) :
                Count(messages, messages[i]) =
                    Count(overlap.initial, messages[i]) + Count(added, messages[i])
          /\ \A i \in 1..Len(added) :
                Count(messages, added[i]) =
                    Count(overlap.initial, added[i]) + Count(added, added[i])
          /\ c = s + overlap.failed + Cardinality(Awaiting)
\* two calls overlapped on an empty history, the first to begin raised and
\* the second returned
C39_Witness ==
    /\ Awaiting = {}
    /\ Len(overlap.users) = 2
    /\ Len(overlap.replies) = 1
    /\ overlap.failed = 1
    /\ Len(messages) = 3
    /\ ~last.clean

============================================================================
